---- MODULE Spec2Model ----
(***************************************************************************)
(* Beam-Calculator: the closed-form statics engine of Solver.py and the    *)
(* deflection integration of Stress_solver.py.                             *)
(*                                                                         *)
(* Numbers.  The program computes in float64.  The model computes with     *)
(* exact rationals <<numerator, denominator>> (denominator > 0, lowest     *)
(* terms), i.e. the real-number value every float expression approximates; *)
(* rounding error is the "floating-point tolerance" the specification      *)
(* speaks of and is not modelled.                                          *)
(*                                                                         *)
(* Arrays.  numpy arrays are sequences indexed from 1: sample i of the     *)
(* program (0-based) is element i+1 of the model.                          *)
(***************************************************************************)
EXTENDS Integers, Sequences, FiniteSets, TLC

(***************************************************************************)
(* Bounds of the model.                                                    *)
(***************************************************************************)
\* number of divisions of the beam (the program uses 10000)
Divisions == 4
\* largest total number of loads in the four load lists together
MaxLoads == 2

(***************************************************************************)
(* Exact rational arithmetic on pairs <<numerator, denominator>> in lowest *)
(* terms with a positive denominator.  The three values of float           *)
(* arithmetic that are not numbers have the denominator 0: <<1, 0>> is     *)
(* inf, <<-1, 0>> is -inf and <<0, 0>> is nan, and the operations treat    *)
(* them as IEEE 754 does (zeros carry no sign).                            *)
(***************************************************************************)
IAbs(n) == IF n < 0 THEN -n ELSE n

RECURSIVE GCD(_, _)
GCD(a, b) == IF b = 0 THEN a ELSE GCD(b, a % b)

Sign(n) == IF n < 0 THEN -1 ELSE IF n = 0 THEN 0 ELSE 1

Frac(n, d) ==
    IF d = 0 THEN <<Sign(n), 0>>
    ELSE LET g == GCD(IAbs(n), IAbs(d))
             s == IF d < 0 THEN -1 ELSE 1
         IN  <<(s * n) \div g, (s * d) \div g>>

R(n) == <<n, 1>>
Zero == R(0)

\* inf + inf = inf, inf - inf = nan, nan + x = nan, inf + x = inf
RAdd(p, q) ==
    IF p[2] = q[2]
    THEN IF p[2] = 1 THEN <<p[1] + q[1], 1>>
         ELSE IF p[2] = 0 THEN (IF p = q THEN p ELSE <<0, 0>>)
         ELSE Frac(p[1] + q[1], p[2])
    ELSE IF p[2] = 0 THEN p
    ELSE IF q[2] = 0 THEN q
    ELSE LET g == GCD(p[2], q[2])
             l == (p[2] \div g) * q[2]
         IN  Frac(p[1] * (l \div p[2]) + q[1] * (l \div q[2]), l)

RNeg(p) == <<-p[1], p[2]>>

RSub(p, q) == RAdd(p, RNeg(q))

\* p and q are in lowest terms, and so is the product after the cross
\* cancellation; inf * 0 = nan, nan * x = nan, inf * x = inf with the sign
\* of the product
RMul(p, q) ==
    IF p[2] = 1 /\ q[2] = 1
    THEN <<p[1] * q[1], 1>>
    ELSE IF p[2] = 0 \/ q[2] = 0
    THEN <<Sign(p[1]) * Sign(q[1]), 0>>
    ELSE LET g1 == GCD(IAbs(p[1]), q[2])
             g2 == GCD(IAbs(q[1]), p[2])
         IN  <<(p[1] \div g1) * (q[1] \div g2), (p[2] \div g2) * (q[2] \div g1)>>

\* the division of numpy.float64: x / 0 = inf with the sign of x, 0 / 0 = nan,
\* x / inf = 0, inf / inf = nan
RDiv(p, q) == RMul(p, Frac(q[2], q[1]))

RAbs(p) == <<IAbs(p[1]), p[2]>>

IsNaN(p) == p[1] = 0 /\ p[2] = 0

\* compared over the least common denominator, which keeps the products
\* small; every comparison with nan is false
RLt(p, q) ==
    IF p[2] = q[2]
    THEN p[1] < q[1] /\ (p[2] = 0 => p[1] = -1 /\ q[1] = 1)
    ELSE LET g == GCD(p[2], q[2])
         IN  p[1] * (q[2] \div g) < q[1] * (p[2] \div g)

RLe(p, q) ==
    IF p[2] = q[2]
    THEN p[1] <= q[1] /\ (p[2] = 0 => p[1] # 0 /\ q[1] # 0)
    ELSE /\ ~ IsNaN(p) /\ ~ IsNaN(q)
         /\ LET g == GCD(p[2], q[2])
            IN  p[1] * (q[2] \div g) <= q[1] * (p[2] \div g)

RMax(p, q) == IF RLt(p, q) THEN q ELSE p

\* the float literals of the source
Half == Frac(1, 2)
Third == Frac(1, 3)
TwoThirds == Frac(2, 3)

\* F applied to the value of v: v is evaluated once, however often F uses it
\* (the assignment of an intermediate result to a local variable)
With(v, F(_)) == CHOOSE r \in {F(z) : z \in {v}} : TRUE

\* sum of f[1..Len(f)]
RECURSIVE RSumTo(_, _)
RSumTo(f, n) == IF n = 0 THEN Zero ELSE RAdd(RSumTo(f, n - 1), f[n])

RSum(f) == RSumTo(f, Len(f))

\* componentwise sums of a sequence of pairs / triples of rationals: the
\* running totals the source keeps in its accumulator variables
SumPairs(s) ==
    With(s, LAMBDA c : <<RSum([n \in 1..Len(c) |-> c[n][1]]),
                         RSum([n \in 1..Len(c) |-> c[n][2]])>>)

SumTriples(s) ==
    With(s, LAMBDA c : <<RSum([n \in 1..Len(c) |-> c[n][1]]),
                         RSum([n \in 1..Len(c) |-> c[n][2]]),
                         RSum([n \in 1..Len(c) |-> c[n][3]])>>)

(***************************************************************************)
(* Solver.py, initialize_solver: X_Field = arange(0, L + Delta, Delta)     *)
(* with Delta = L / divisions, i.e. the samples 0, Delta, ..., L.          *)
(***************************************************************************)
initialize_solver(beam_length) ==
    LET Delta == RDiv(beam_length, R(Divisions))
    IN  [i \in 1..(Divisions + 1) |-> RMul(R(i - 1), Delta)]

(***************************************************************************)
(* Solver.py, calculate_all_reactions: what each load adds to              *)
(* <<Va, Vb, Ha>>.                                                         *)
(***************************************************************************)
\* a variant that charges the whole point load to Va without taking off the
\* share carried by Vb
SimplePointReaction_NoShare(A, B, p) ==
    LET Xp == p[1]
        Fx == p[2]
        Fy == p[3]
        t  == RDiv(RMul(Fy, RSub(A, Xp)), RSub(B, A))
    IN  <<RNeg(Fy), t, Fx>>

\* pointloads[n] = <<Xp, Fx, Fy>>
SimplePointReaction(A, B, p) ==
    LET Xp == p[1]
        Fx == p[2]
        Fy == p[3]
        t  == RDiv(RMul(Fy, RSub(A, Xp)), RSub(B, A))
    IN  <<RSub(RNeg(Fy), t), t, Fx>>

\* a variant that balances the point moment with the opposite couple
SimpleMomentReaction_OppositeCouple(A, B, ml) ==
    LET m == ml[2]
    IN  <<RDiv(m, RSub(B, A)), RDiv(RNeg(m), RSub(B, A)), Zero>>

\* momentloads[n] = <<Xm, m>>
SimpleMomentReaction(A, B, ml) ==
    LET m == ml[2]
    IN  <<RDiv(RNeg(m), RSub(B, A)), RDiv(m, RSub(B, A)), Zero>>

\* distributedloads[n] = <<Xstart, Xend, Fy>>
SimpleUDLReaction(A, B, d) ==
    LET Xstart == d[1]
        Xend   == d[2]
        Fy     == d[3]
        Fy_res == RMul(Fy, RSub(Xend, Xstart))
        X_res  == RAdd(Xstart, RMul(Half, RSub(Xend, Xstart)))
        t      == RDiv(RMul(Fy_res, RSub(A, X_res)), RSub(B, A))
    IN  <<RSub(RNeg(Fy_res), t), t, Zero>>

\* a variant with the 1/3 and 2/3 arms of the two branches exchanged
SimpleTRLResultant_SwappedArms(tr) ==
    LET Xstart   == tr[1]
        Xend     == tr[2]
        Fy_start == tr[3]
        Fy_end   == tr[4]
    IN  IF RLt(Zero, RAbs(Fy_start))
        THEN <<RMul(RMul(Half, Fy_start), RSub(Xend, Xstart)),
               RAdd(Xstart, RMul(TwoThirds, RSub(Xend, Xstart)))>>
        ELSE <<RMul(RMul(Half, Fy_end), RSub(Xend, Xstart)),
               RAdd(Xstart, RMul(Third, RSub(Xend, Xstart)))>>

\* triangleloads[n] = <<Xstart, Xend, Fy_start, Fy_end>>: the resultant
\* <<Fy_res, X_res>> chosen by the branch on abs(Fy_start) > 0
SimpleTRLResultant(tr) ==
    LET Xstart   == tr[1]
        Xend     == tr[2]
        Fy_start == tr[3]
        Fy_end   == tr[4]
    IN  IF RLt(Zero, RAbs(Fy_start))
        THEN <<RMul(RMul(Half, Fy_start), RSub(Xend, Xstart)),
               RAdd(Xstart, RMul(Third, RSub(Xend, Xstart)))>>
        ELSE <<RMul(RMul(Half, Fy_end), RSub(Xend, Xstart)),
               RAdd(Xstart, RMul(TwoThirds, RSub(Xend, Xstart)))>>

SimpleTRLReaction(A, B, tr) ==
    LET Fy_res == SimpleTRLResultant(tr)[1]
        X_res  == SimpleTRLResultant(tr)[2]
        t      == RDiv(RMul(Fy_res, RSub(A, X_res)), RSub(B, A))
    IN  <<RSub(RNeg(Fy_res), t), t, Zero>>

\* a variant whose return statement sits inside the loop over the triangular
\* loads: it returns after the first of them
calculate_all_reactions_ReturnInLoop(A, B, pl, ml, dl, tl) ==
    SumTriples(
        [n \in 1..Len(pl) |-> SimplePointReaction(A, B, pl[n])]
        \o [n \in 1..Len(ml) |-> SimpleMomentReaction(A, B, ml[n])]
        \o [n \in 1..Len(dl) |-> SimpleUDLReaction(A, B, dl[n])]
        \o [n \in 1..(IF Len(tl) > 0 THEN 1 ELSE 0) |-> SimpleTRLReaction(A, B, tl[n])])

\* returns <<Va, Vb, Ha>>
calculate_all_reactions(A, B, pl, ml, dl, tl) ==
    SumTriples(
        [n \in 1..Len(pl) |-> SimplePointReaction(A, B, pl[n])]
        \o [n \in 1..Len(ml) |-> SimpleMomentReaction(A, B, ml[n])]
        \o [n \in 1..Len(dl) |-> SimpleUDLReaction(A, B, dl[n])]
        \o [n \in 1..Len(tl) |-> SimpleTRLReaction(A, B, tl[n])])

(***************************************************************************)
(* Solver.py, Calculate_Cantilever_Reactions: what each load adds to       *)
(* <<Va, Ha, Ma>>.                                                         *)
(***************************************************************************)
CantileverPointReaction(p) ==
    LET Xp == p[1]
        Fx == p[2]
        Fy == p[3]
    IN  <<RNeg(Fy), RNeg(Fx), RNeg(RMul(Fy, Xp))>>

CantileverMomentReaction(ml) ==
    LET M == ml[2]
    IN  <<Zero, Zero, RNeg(M)>>

CantileverUDLReaction(d) ==
    LET Xstart      == d[1]
        Xend        == d[2]
        Fy          == d[3]
        total_force == RMul(Fy, RSub(Xend, Xstart))
        centroid    == RDiv(RAdd(Xstart, Xend), R(2))
    IN  <<RNeg(total_force), Zero, RNeg(RMul(total_force, centroid))>>

\* the centroid of a linearly varying load of intensities w1 (at x1) and w2
\* (at x2), as the branches of the source choose it; used with
\* (Xstart, Xend, Fy_start, Fy_end) by the reactions and with
\* (x, Xend, Fy_at_x, Fy_end) by the field sweep, whose code is the same
TRLCentroid(x1, x2, w1, w2) ==
    LET length == RSub(x2, x1)
        h1 == RAbs(w1)
        h2 == RAbs(w2)
        centroid_offset ==
            RDiv(RMul(length, RAdd(h1, RMul(R(2), h2))), RMul(R(3), RAdd(h1, h2)))
    IN  IF RLt(Zero, h1) /\ RLt(Zero, h2)
        THEN IF RLt(h2, h1)
             THEN RAdd(x1, centroid_offset)
             ELSE RSub(x2, centroid_offset)
        ELSE IF RLt(Zero, h1)
        THEN RAdd(x1, RDiv(length, R(3)))
        ELSE IF RLt(Zero, h2)
        THEN RAdd(x1, RDiv(RMul(R(2), length), R(3)))
        ELSE RDiv(RAdd(x1, x2), R(2))

\* a variant that takes the resultant from the start intensity alone, as the
\* simple-beam solver does
CantileverTRLReaction_StartOnly(tr) ==
    LET Xstart        == tr[1]
        Xend          == tr[2]
        Fy_start      == tr[3]
        Fy_end        == tr[4]
        length        == RSub(Xend, Xstart)
        total_force   == RMul(RMul(Half, Fy_start), length)
        centroid      == TRLCentroid(Xstart, Xend, Fy_start, Fy_end)
    IN  <<RNeg(total_force), Zero, RNeg(RMul(total_force, centroid))>>

CantileverTRLReaction(tr) ==
    LET Xstart        == tr[1]
        Xend          == tr[2]
        Fy_start      == tr[3]
        Fy_end        == tr[4]
        avg_intensity == RDiv(RAdd(Fy_start, Fy_end), R(2))
        length        == RSub(Xend, Xstart)
        total_force   == RMul(avg_intensity, length)
        centroid      == TRLCentroid(Xstart, Xend, Fy_start, Fy_end)
    IN  <<RNeg(total_force), Zero, RNeg(RMul(total_force, centroid))>>

\* returns <<Va, Ha, Ma>>
Calculate_Cantilever_Reactions(pl, ml, dl, tl) ==
    SumTriples(
        [n \in 1..Len(pl) |-> CantileverPointReaction(pl[n])]
        \o [n \in 1..Len(ml) |-> CantileverMomentReaction(ml[n])]
        \o [n \in 1..Len(dl) |-> CantileverUDLReaction(dl[n])]
        \o [n \in 1..Len(tl) |-> CantileverTRLReaction(tl[n])])

(***************************************************************************)
(* Solver.py, calculate_sf_bm: what the reactions and each load add to     *)
(* <<shear, moment>> at the sample x.                                      *)
(***************************************************************************)
\* a support reaction V at position S
SimpleReactionAt(x, S, V) ==
    IF RLt(S, x) THEN <<V, RNeg(RMul(V, RSub(x, S)))>> ELSE <<Zero, Zero>>

\* a variant that adds the horizontal component to the shear as well
SimplePointAt_AxialInShear(x, p) ==
    LET Xp == p[1]
        Fx == p[2]
        Fy == p[3]
    IN  IF RLt(Xp, x)
        THEN <<RAdd(Fy, Fx), RNeg(RMul(Fy, RSub(x, Xp)))>>
        ELSE <<Zero, Zero>>

SimplePointAt(x, p) ==
    LET Xp == p[1]
        Fy == p[3]
    IN  IF RLt(Xp, x) THEN <<Fy, RNeg(RMul(Fy, RSub(x, Xp)))>> ELSE <<Zero, Zero>>

SimpleMomentAt(x, ml) ==
    LET Xm == ml[1]
        m  == ml[2]
    IN  IF RLt(Xm, x) THEN <<Zero, RNeg(m)>> ELSE <<Zero, Zero>>

SimpleUDLAt(x, d) ==
    LET Xstart == d[1]
        Xend   == d[2]
        Fy     == d[3]
    IN  IF RLt(Xstart, x) /\ RLe(x, Xend)
        THEN <<RMul(Fy, RSub(x, Xstart)),
               RNeg(RMul(RMul(RMul(Fy, RSub(x, Xstart)), Half), RSub(x, Xstart)))>>
        ELSE IF RLt(Xend, x)
        THEN <<RMul(Fy, RSub(Xend, Xstart)),
               RNeg(RMul(RMul(Fy, RSub(Xend, Xstart)),
                         RSub(RSub(x, Xstart), RMul(Half, RSub(Xend, Xstart)))))>>
        ELSE <<Zero, Zero>>

\* a variant with the arms 2/3 and 1/3 of the two in-span branches exchanged
SimpleTRLAt_SwappedArms(x, tr) ==
    LET Xstart   == tr[1]
        Xend     == tr[2]
        Fy_start == tr[3]
        Fy_end   == tr[4]
        Xbase    == RSub(x, Xstart)
    IN  IF RLt(Xstart, x) /\ RLe(x, Xend)
        THEN IF RLt(Zero, RAbs(Fy_start))
             THEN LET F_cut == RSub(Fy_start,
                                    RMul(Xbase, RDiv(Fy_start, RSub(Xend, Xstart))))
                      R1 == RMul(RMul(Half, Xbase), RSub(Fy_start, F_cut))
                      R2 == RMul(Xbase, F_cut)
                  IN  <<RAdd(R1, R2),
                        RNeg(RAdd(RMul(RMul(R1, Third), Xbase),
                                  RMul(RMul(R2, Half), Xbase)))>>
             ELSE LET F_cut == RMul(Fy_end, RDiv(Xbase, RSub(Xend, Xstart)))
                      R0 == RMul(RMul(Half, Xbase), F_cut)
                  IN  <<R0, RNeg(RMul(RMul(R0, TwoThirds), Xbase))>>
        ELSE IF RLt(Xend, x)
        THEN IF RLt(Zero, RAbs(Fy_start))
             THEN LET R0 == RMul(RMul(Half, Fy_start), RSub(Xend, Xstart))
                      Xr == RAdd(Xstart, RMul(Third, RSub(Xend, Xstart)))
                  IN  <<R0, RNeg(RMul(R0, RSub(x, Xr)))>>
             ELSE LET R0 == RMul(RMul(Half, Fy_end), RSub(Xend, Xstart))
                      Xr == RAdd(Xstart, RMul(TwoThirds, RSub(Xend, Xstart)))
                  IN  <<R0, RNeg(RMul(R0, RSub(x, Xr)))>>
        ELSE <<Zero, Zero>>

SimpleTRLAt(x, tr) ==
    LET Xstart   == tr[1]
        Xend     == tr[2]
        Fy_start == tr[3]
        Fy_end   == tr[4]
        Xbase    == RSub(x, Xstart)
    IN  IF RLt(Xstart, x) /\ RLe(x, Xend)
        THEN IF RLt(Zero, RAbs(Fy_start))
             THEN LET F_cut == RSub(Fy_start,
                                    RMul(Xbase, RDiv(Fy_start, RSub(Xend, Xstart))))
                      R1 == RMul(RMul(Half, Xbase), RSub(Fy_start, F_cut))
                      R2 == RMul(Xbase, F_cut)
                  IN  <<RAdd(R1, R2),
                        RNeg(RAdd(RMul(RMul(R1, TwoThirds), Xbase),
                                  RMul(RMul(R2, Half), Xbase)))>>
             ELSE LET F_cut == RMul(Fy_end, RDiv(Xbase, RSub(Xend, Xstart)))
                      R0 == RMul(RMul(Half, Xbase), F_cut)
                  IN  <<R0, RNeg(RMul(RMul(R0, Third), Xbase))>>
        ELSE IF RLt(Xend, x)
        THEN IF RLt(Zero, RAbs(Fy_start))
             THEN LET R0 == RMul(RMul(Half, Fy_start), RSub(Xend, Xstart))
                      Xr == RAdd(Xstart, RMul(Third, RSub(Xend, Xstart)))
                  IN  <<R0, RNeg(RMul(R0, RSub(x, Xr)))>>
             ELSE LET R0 == RMul(RMul(Half, Fy_end), RSub(Xend, Xstart))
                      Xr == RAdd(Xstart, RMul(TwoThirds, RSub(Xend, Xstart)))
                  IN  <<R0, RNeg(RMul(R0, RSub(x, Xr)))>>
        ELSE <<Zero, Zero>>

\* <<shear, moment>> of one pass of the loop over X_Field
SimpleSampleAt(x, A, B, pl, ml, dl, tl, reactions) ==
    LET Va == reactions[1]
        Vb == reactions[2]
    IN  SumPairs(
            <<SimpleReactionAt(x, A, Va), SimpleReactionAt(x, B, Vb)>>
            \o [n \in 1..Len(pl) |-> SimplePointAt(x, pl[n])]
            \o [n \in 1..Len(ml) |-> SimpleMomentAt(x, ml[n])]
            \o [n \in 1..Len(dl) |-> SimpleUDLAt(x, dl[n])]
            \o [n \in 1..Len(tl) |-> SimpleTRLAt(x, tl[n])])

\* returns <<ShearForce, -BendingMoment>>
calculate_sf_bm(X_Field, A, B, pl, ml, dl, tl, reactions) ==
    With([i \in 1..Len(X_Field) |->
             SimpleSampleAt(X_Field[i], A, B, pl, ml, dl, tl, reactions)],
         LAMBDA at : <<[i \in 1..Len(X_Field) |-> at[i][1]],
                       [i \in 1..Len(X_Field) |-> RNeg(at[i][2])]>>)

(***************************************************************************)
(* Solver.py, Calculate_SF_BM_Cantilever: the right-to-left sweep; what    *)
(* each load adds to <<shear, moment>> at the sample x.                    *)
(***************************************************************************)
CantileverPointAt(x, p) ==
    LET Xp == p[1]
        Fy == p[3]
    IN  IF RLt(x, Xp) THEN <<RNeg(Fy), RNeg(RMul(Fy, RSub(Xp, x)))>> ELSE <<Zero, Zero>>

CantileverUDLAt(x, d) ==
    LET Xstart        == d[1]
        Xend          == d[2]
        Fy            == d[3]
        start_pos     == RMax(x, Xstart)
        load_length   == RSub(Xend, start_pos)
        load_total    == RMul(Fy, load_length)
        load_centroid == RAdd(start_pos, RDiv(load_length, R(2)))
    IN  IF RLt(x, Xend)
        THEN <<RNeg(load_total), RNeg(RMul(load_total, RSub(load_centroid, x)))>>
        ELSE <<Zero, Zero>>

CantileverMomentAt(x, ml) ==
    LET Xm == ml[1]
        M  == ml[2]
    IN  IF RLt(x, Xm) THEN <<Zero, RNeg(M)>> ELSE <<Zero, Zero>>

CantileverTRLAt(x, tr) ==
    LET Xstart    == tr[1]
        Xend      == tr[2]
        Fy_start  == tr[3]
        Fy_end    == tr[4]
        start_pos == RMax(x, Xstart)
        t         == IF RLt(Xstart, Xend)
                     THEN RDiv(RSub(x, Xstart), RSub(Xend, Xstart))
                     ELSE Zero
        Fy_at_x   == RAdd(Fy_start, RMul(t, RSub(Fy_end, Fy_start)))
        remaining_length == RSub(Xend, x)
        avg_intensity    == RDiv(RAdd(Fy_at_x, Fy_end), R(2))
        total_force      == RMul(avg_intensity, remaining_length)
        centroid         == TRLCentroid(x, Xend, Fy_at_x, Fy_end)
    IN  IF RLt(x, Xend) /\ start_pos = x
        THEN <<RNeg(total_force), RNeg(RMul(total_force, RSub(centroid, x)))>>
        ELSE <<Zero, Zero>>

CantileverSampleAt(x, pl, ml, dl, tl) ==
    SumPairs(
        [n \in 1..Len(pl) |-> CantileverPointAt(x, pl[n])]
        \o [n \in 1..Len(dl) |-> CantileverUDLAt(x, dl[n])]
        \o [n \in 1..Len(ml) |-> CantileverMomentAt(x, ml[n])]
        \o [n \in 1..Len(tl) |-> CantileverTRLAt(x, tl[n])])

\* returns <<ShearForce, BendingMoment>>; BendingMoment[0] is overwritten
\* with Ma after the sweep
Calculate_SF_BM_Cantilever(X_Field, Va, Ha, Ma, pl, ml, dl, tl) ==
    With([i \in 1..Len(X_Field) |-> CantileverSampleAt(X_Field[i], pl, ml, dl, tl)],
         LAMBDA at : <<[i \in 1..Len(X_Field) |-> at[i][1]],
                       [i \in 1..Len(X_Field) |-> IF i = 1 THEN Ma ELSE at[i][2]]>>)

(***************************************************************************)
(* Solver.py, the high-level entry points.  Each returns                   *)
(* <<X_Field, ShearForce, BendingMoment, Reactions>>.  A load list that is *)
(* None is converted to an empty array, which is how the model holds it.   *)
(***************************************************************************)
NegArray(a) == [i \in 1..Len(a) |-> RNeg(a[i])]

solve_simple_beam(beam_length, A, B, pl, dl, ml, tl, beam_type) ==
    With(initialize_solver(beam_length), LAMBDA X_Field :
        IF beam_type = "Simple"
        THEN With(calculate_all_reactions(A, B, pl, ml, dl, tl), LAMBDA Reactions :
             With(calculate_sf_bm(X_Field, A, B, pl, ml, dl, tl, Reactions), LAMBDA sfbm :
                 <<X_Field, sfbm[1], sfbm[2], Reactions>>))
        ELSE \* beam_type = "Cantilever"; the tuple is unpacked as Va, Ma, Ha
             With(Calculate_Cantilever_Reactions(pl, ml, dl, tl), LAMBDA r :
                 LET Va == r[1]
                     Ma == r[2]
                     Ha == r[3]
                 IN  With(Calculate_SF_BM_Cantilever(X_Field, Va, Ma, Ha, pl, ml, dl, tl),
                          LAMBDA sfbm : <<X_Field, sfbm[1], sfbm[2], <<Va, Ma, Ha>> >>)))

solve_cantilever_beam(beam_length, pl, dl, ml, tl) ==
    With(initialize_solver(beam_length), LAMBDA X_Field :
    With(Calculate_Cantilever_Reactions(pl, ml, dl, tl), LAMBDA r :
        LET Va == r[1]
            Ha == r[2]
            Ma == r[3]
        IN  With(Calculate_SF_BM_Cantilever(X_Field, Va, Ha, Ma, pl, ml, dl, tl),
                 LAMBDA sfbm :
                     LET CorrectedBendingMoment == NegArray(sfbm[2])
                     IN  <<X_Field, sfbm[1], CorrectedBendingMoment, <<Va, Ha, Ma>> >>)))

(***************************************************************************)
(* SuperSolver.py, solve_cantilever: the left-to-right formulation with    *)
(* the fixed end at A.  The reactions Va and Ma are the sums of the loads  *)
(* and of their moments about A; each sample superposes the reactions and  *)
(* the loads at or left of it.                                             *)
(***************************************************************************)
RMin(p, q) == IF RLt(q, p) THEN q ELSE p

\* <<V_total, M_total>>: Va = V_total, Ma = M_total
SuperCantileverReactions(A, pl, dl, ml) ==
    SumPairs([n \in 1..Len(pl) |->
                  <<pl[n][3], RMul(pl[n][3], RSub(pl[n][1], A))>>]
             \o [n \in 1..Len(dl) |->
                  LET start == dl[n][1]
                      end   == dl[n][2]
                      w     == dl[n][3]
                      F     == RMul(w, RSub(end, start))
                      x_bar == RDiv(RAdd(start, end), R(2))
                  IN  <<F, RMul(F, RSub(x_bar, A))>>]
             \o [n \in 1..Len(ml) |-> <<Zero, ml[n][2]>>])

\* <<SF[i], BM[i]>> at the sample x
SuperCantileverSampleAt(x, A, Va, Ma, pl, dl, ml) ==
    SumPairs(<< IF RLe(A, x)
                THEN <<Va, RAdd(Ma, RMul(Va, RSub(x, A)))>>
                ELSE <<Zero, Zero>> >>
             \o [n \in 1..Len(pl) |->
                  IF RLe(pl[n][1], x)
                  THEN <<RNeg(pl[n][3]), RNeg(RMul(pl[n][3], RSub(x, pl[n][1])))>>
                  ELSE <<Zero, Zero>>]
             \o [n \in 1..Len(dl) |->
                  LET start == dl[n][1]
                      end   == dl[n][2]
                      w     == dl[n][3]
                      x_eff == RSub(RMin(x, end), start)
                  IN  IF RLe(start, x)
                      THEN <<RNeg(RMul(w, x_eff)),
                             RNeg(RMul(RMul(w, x_eff),
                                       RSub(RSub(x, start), RDiv(x_eff, R(2)))))>>
                      ELSE <<Zero, Zero>>]
             \o [n \in 1..Len(ml) |->
                  IF RLe(ml[n][1], x) THEN <<Zero, RNeg(ml[n][2])>> ELSE <<Zero, Zero>>])

\* returns <<X_Field, SF, BM, <<Va, Ma>> >>
solve_cantilever(beam_length, A, pl, dl, ml) ==
    With(initialize_solver(beam_length), LAMBDA X_Field :
    With(SuperCantileverReactions(A, pl, dl, ml), LAMBDA r :
        LET Va == r[1]
            Ma == r[2]
        IN  With([i \in 1..Len(X_Field) |->
                      SuperCantileverSampleAt(X_Field[i], A, Va, Ma, pl, dl, ml)],
                 LAMBDA sfbm :
                     <<X_Field,
                       [i \in 1..Len(sfbm) |-> sfbm[i][1]],
                       [i \in 1..Len(sfbm) |-> sfbm[i][2]],
                       <<Va, Ma>> >>)))

(***************************************************************************)
(* Stress_solver.py, calculate_beam_deflection.                            *)
(***************************************************************************)
\* scipy.integrate.cumulative_trapezoid(y, x, initial=0):
\*   res[0] = 0, res[i] = res[i-1] + (x[i] - x[i-1]) * (y[i] + y[i-1]) / 2
RECURSIVE CumTrapAt(_, _, _)
CumTrapAt(y, x, i) ==
    IF i = 1 THEN Zero
    ELSE RAdd(CumTrapAt(y, x, i - 1),
              RDiv(RMul(RSub(x[i], x[i - 1]), RAdd(y[i], y[i - 1])), R(2)))

\* a variant called with initial=1
cumulative_trapezoid_InitialOne(y, x) ==
    [i \in 1..Len(x) |-> RAdd(R(1), CumTrapAt(y, x, i))]

cumulative_trapezoid(y, x) == [i \in 1..Len(x) |-> CumTrapAt(y, x, i)]

\* curvature, slope and the deflection before the boundary correction
\* (lines 29, 33 and 40)
Curvature(bending_moment, elastic_modulus, moment_of_inertia) ==
    [i \in 1..Len(bending_moment) |->
        RDiv(bending_moment[i], RMul(elastic_modulus, moment_of_inertia))]

\* a variant that subtracts the end value at every sample, without the ratio
\* x / x[-1]
LinearCorrection_Constant(deflection, x_field) ==
    [i \in 1..Len(x_field) |->
        RSub(deflection[i], deflection[Len(deflection)])]

\* the linear correction of lines 51-52
LinearCorrection(deflection, x_field) ==
    [i \in 1..Len(x_field) |->
        RSub(deflection[i],
             RMul(deflection[Len(deflection)],
                  RDiv(x_field[i], x_field[Len(x_field)])))]

\* returns <<deflection, slope, curvature>>
calculate_beam_deflection(x_field, bending_moment, elastic_modulus, moment_of_inertia) ==
    With(Curvature(bending_moment, elastic_modulus, moment_of_inertia), LAMBDA curvature :
    With(cumulative_trapezoid(curvature, x_field), LAMBDA slope :
    With(cumulative_trapezoid(slope, x_field), LAMBDA deflection :
        <<LinearCorrection(deflection, x_field), slope, curvature>>)))

(***************************************************************************)
(* Stress_solver.py, the stress functions, and the y samples the profile   *)
(* functions of moi_solver.py hand to them.                                *)
(***************************************************************************)
\* half the number of intervals of y_array (the program uses 5000: 10001
\* samples, the middle one at the neutral axis)
YHalf == 2

\* numpy.linspace(start, stop, num)
linspace(start, stop, num) ==
    [i \in 1..num |->
        RAdd(start, RMul(R(i - 1), RDiv(RSub(stop, start), R(num - 1))))]

\* y_array = np.linspace(-c, c, 10001)
ProfileYArray(c) == linspace(RNeg(c), c, 2 * YHalf + 1)

\* np.max(np.abs(a)) of a nonempty array
RECURSIVE MaxAbsTo(_, _)
MaxAbsTo(a, n) ==
    IF n = 1 THEN RAbs(a[1]) ELSE RMax(MaxAbsTo(a, n - 1), RAbs(a[n]))

MaxAbs(a) == MaxAbsTo(a, Len(a))

\* Q[i] = A_prime * y_prime with A_prime = width * (y[-1] - y) and
\* y_prime = (y[-1] + y) / 2 - y
first_moment_of_area_rect(width, y_array) ==
    [i \in 1..Len(y_array) |->
        LET y       == y_array[i]
            top     == y_array[Len(y_array)]
            A_prime == RMul(width, RSub(top, y))
            y_prime == RSub(RDiv(RAdd(top, y), R(2)), y)
        IN  RMul(A_prime, y_prime)]

\* the matrix (V @ Q) / (moment_of_inertia * width): row i is a position along
\* the beam, column j a position in the cross-section
calculate_shear_stress(shear_force, first_moment_area, moment_of_inertia, width) ==
    [i \in 1..Len(shear_force) |->
        [j \in 1..Len(first_moment_area) |->
            RDiv(RMul(shear_force[i], first_moment_area[j]),
                 RMul(moment_of_inertia, width))]]

\* np.max(np.abs(matrix))
MaxAbsMatrix(m) == MaxAbs([i \in 1..Len(m) |-> MaxAbs(m[i])])

calculate_bending_stress(bending_moment, c, moment_of_inertia) ==
    [i \in 1..Len(bending_moment) |->
        RDiv(RMul(bending_moment[i], c), moment_of_inertia)]

\* the values of IEEE arithmetic that are not numbers
Inf == <<1, 0>>
NegInf == <<-1, 0>>
NaN == <<0, 0>>

\* a division of Python floats: <<exception raised or "ok", value>>
float_truediv(p, q) ==
    IF q = Zero THEN <<"ZeroDivisionError", NaN>> ELSE <<"ok", RDiv(p, q)>>

\* a division whose divisor is a numpy.float64: division by zero gives inf or
\* nan (with a RuntimeWarning), it raises nothing
float64_truediv(p, q) ==
    IF q = Zero
    THEN <<"ok", IF p = Zero THEN NaN ELSE IF RLt(Zero, p) THEN Inf ELSE NegInf>>
    ELSE <<"ok", RDiv(p, q)>>

\* a variant that multiplies by the moment of inertia instead of dividing
Factor_of_Safety_TimesInertia(bending_moment, c, yield_strength, moment_of_inertia) ==
    LET max_bending_stress ==
            RMul(RMul(MaxAbs(bending_moment), c), moment_of_inertia)
    IN  float64_truediv(yield_strength, max_bending_stress)

\* returns <<"ok", FOS>>, or the exception raised
Factor_of_Safety(bending_moment, c, yield_strength, moment_of_inertia) ==
    LET max_bending_stress ==
            RDiv(RMul(MaxAbs(bending_moment), c), moment_of_inertia)
    IN  float64_truediv(yield_strength, max_bending_stress)

(***************************************************************************)
(* The analysis session: a beam is configured, loads are entered, the      *)
(* solver is run on them and the deflection is derived from its moment     *)
(* field.                                                                  *)
(***************************************************************************)
VARIABLES
    beam_type,            \* "Simple" or "Cantilever"
    beam_length,
    A, B,                 \* support positions; left at their initial 0.0 (None) for a cantilever
    pointloads,           \* sequence of <<Xp, Fx, Fy>>
    distributedloads,     \* sequence of <<Xstart, Xend, Fy>>
    momentloads,          \* sequence of <<Xm, m>>
    triangleloads,        \* sequence of <<Xstart, Xend, Fy_start, Fy_end>>
    entry,                \* the solver entry point that produced the results
    X_Field, Total_ShearForce, Total_BendingMoment, Reactions,
    elastic_modulus, Ix,
    Deflection, Slope, curv,
    c, b, y_array,        \* the profile: extreme fibre distance, width, y samples
    yield_strength,
    Q_array, Max_Shear_stress, Max_bending_stress, FOS,
    outcome,              \* how the last direct call of an entry point ended
    calls,                \* the direct calls made so far, with what they returned
    pc,                   \* "define", "solved", "deflected", "stressed",
                          \* "stress_error"; "direct" for direct calls
    project_state,        \* cli.py's flags: what is defined, analysed, unsaved
    beam_storage,         \* the projects held in memory
    current_project,      \* <<>> for None, <<project>> for the project in hand
    shape,                \* the profile's name, "" before one is chosen
    selected_material,    \* the material's record, the empty record before
    A_type, B_type,       \* "", "Pin Support" / "Roller Support", "None"
    loads                 \* the dictionary manage_loads returned, {} before

inputVars  == <<beam_type, beam_length, A, B>>
loadVars   == <<pointloads, distributedloads, momentloads, triangleloads>>
resultVars == <<entry, X_Field, Total_ShearForce, Total_BendingMoment, Reactions>>
deflVars   == <<elastic_modulus, Ix, Deflection, Slope, curv>>
stressVars == <<c, b, y_array, yield_strength,
                Q_array, Max_Shear_stress, Max_bending_stress, FOS>>
callVars   == <<outcome, calls>>
menuVars   == <<project_state, beam_storage, current_project, shape,
                selected_material, A_type, B_type, loads>>
vars == <<inputVars, loadVars, resultVars, deflVars, stressVars, callVars, pc,
          menuVars>>

\* Python's None where a number is expected (a pair that is neither a
\* rational nor inf or nan)
None == <<0, -1>>

(***************************************************************************)
(* The values the inputs are drawn from.                                   *)
(***************************************************************************)
BeamLengths == {R(3), R(4)}
SupportAs == {R(0), R(1)}
SupportBs == {R(3), R(4)}
\* <<Xp, Fx, Fy>>
PointLoadInputs == {<<R(3), R(0), R(-10)>>, <<R(1), R(2), R(5)>>}
\* <<Xm, m>>
MomentLoadInputs == {<<R(2), R(-8)>>}
\* <<start, end>> as typed for a UDL or a triangular load
Spans == {<<R(0), R(4)>>, <<R(1), R(3)>>, <<R(3), R(3)>>}
UDLIntensities == {R(-2)}
\* falling and rising triangles, trapezoids larger at the end and at the start
TRLIntensities == {<<R(10), R(0)>>, <<R(0), R(6)>>, <<R(2), R(4)>>, <<R(4), R(2)>>}
Moduli == {R(2)}
Inertias == {R(1), R(3)}
\* the profile: distance c of the extreme fibre and width b
ExtremeFibres == {R(2)}
Widths == {R(1)}
YieldStrengths == {R(12), R(30)}

NumLoads ==
    Len(pointloads) + Len(distributedloads) + Len(momentloads) + Len(triangleloads)

\* the data model's invariant on positions: 0 <= position <= beam_length
OnBeam(x) == RLe(Zero, x) /\ RLe(x, beam_length)

\* nothing of the stress analysis has been computed
NoStress ==
    /\ c = Zero
    /\ b = Zero
    /\ y_array = <<>>
    /\ yield_strength = Zero
    /\ Q_array = <<>>
    /\ Max_Shear_stress = Zero
    /\ Max_bending_stress = Zero
    /\ FOS = Zero

\* no entry point has been called directly
NoCalls ==
    /\ outcome = "none"
    /\ calls = <<>>

\* a Python value that is false in a condition: '', {}, [] and None where a
\* dictionary is expected
Falsy == <<>>

\* cli.py, init: every flag of project_state is False
InitialProjectState ==
    [is_loaded             |-> FALSE,
     profile_saved         |-> FALSE,
     material_saved        |-> FALSE,
     loads_saved           |-> FALSE,
     supports_saved        |-> FALSE,
     analysis_complete     |-> FALSE,
     deflection_calculated |-> FALSE,
     stress_calculated     |-> FALSE,
     has_unsaved_changes   |-> FALSE]

\* cli.py's module-level values of what the menu keeps
NoMenu ==
    /\ project_state = InitialProjectState
    /\ beam_storage = <<>>
    /\ current_project = <<>>
    /\ shape = ""
    /\ selected_material = Falsy
    /\ A_type = ""
    /\ B_type = ""
    /\ loads = Falsy

Init ==
    /\ beam_type \in {"Simple", "Cantilever"}
    /\ beam_length \in BeamLengths
    /\ IF beam_type = "Simple"
       THEN /\ A \in SupportAs
            /\ B \in SupportBs
            /\ RLt(A, B)
            /\ RLe(B, beam_length)
       ELSE A = None /\ B = None
    /\ pointloads = <<>>
    /\ distributedloads = <<>>
    /\ momentloads = <<>>
    /\ triangleloads = <<>>
    /\ entry = "none"
    /\ X_Field = <<>>
    /\ Total_ShearForce = <<>>
    /\ Total_BendingMoment = <<>>
    /\ Reactions = <<>>
    /\ elastic_modulus = Zero
    /\ Ix = Zero
    /\ Deflection = <<>>
    /\ Slope = <<>>
    /\ curv = <<>>
    /\ NoStress
    /\ NoCalls
    /\ NoMenu
    /\ pc = "define"

\* inputs.py, manage_loads, choice '1'
AddPointLoad ==
    /\ pc = "define"
    /\ NumLoads < MaxLoads
    /\ \E p \in PointLoadInputs :
        /\ OnBeam(p[1])
        /\ pointloads' = Append(pointloads, p)
    /\ UNCHANGED <<inputVars, distributedloads, momentloads, triangleloads,
                   resultVars, deflVars, stressVars, callVars, pc, menuVars>>

\* inputs.py, manage_loads, choice '2'
AddDistributedLoad ==
    /\ pc = "define"
    /\ NumLoads < MaxLoads
    /\ \E span \in Spans, intensity \in UDLIntensities :
        LET start == span[1]
            end   == span[2]
        IN  /\ OnBeam(start) /\ OnBeam(end)
            \* "End position must be greater than start position!"
            /\ ~ RLe(end, start)
            /\ distributedloads' = Append(distributedloads, <<start, end, intensity>>)
    /\ UNCHANGED <<inputVars, pointloads, momentloads, triangleloads,
                   resultVars, deflVars, stressVars, callVars, pc, menuVars>>

\* inputs.py, manage_loads, choice '3'
AddMomentLoad ==
    /\ pc = "define"
    /\ NumLoads < MaxLoads
    /\ \E m \in MomentLoadInputs :
        /\ OnBeam(m[1])
        /\ momentloads' = Append(momentloads, m)
    /\ UNCHANGED <<inputVars, pointloads, distributedloads, triangleloads,
                   resultVars, deflVars, stressVars, callVars, pc, menuVars>>

\* inputs.py, manage_loads, choice '4'
AddTriangularLoad ==
    /\ pc = "define"
    /\ NumLoads < MaxLoads
    /\ \E span \in Spans, w \in TRLIntensities :
        LET start == span[1]
            end   == span[2]
        IN  /\ OnBeam(start) /\ OnBeam(end)
            \* "End position must be greater than start position!"
            /\ ~ RLe(end, start)
            /\ triangleloads' = Append(triangleloads, <<start, end, w[1], w[2]>>)
    /\ UNCHANGED <<inputVars, pointloads, distributedloads, momentloads,
                   resultVars, deflVars, stressVars, callVars, pc, menuVars>>

\* the four values an entry point returns are stored as the results
StoreResults(name, result) ==
    /\ \E res \in {result} :
        /\ X_Field' = res[1]
        /\ Total_ShearForce' = res[2]
        /\ Total_BendingMoment' = res[3]
        /\ Reactions' = res[4]
    /\ entry' = name
    /\ pc' = "solved"
    /\ UNCHANGED <<inputVars, loadVars, deflVars, stressVars, callVars, menuVars>>

\* cli.py, run analysis, beam_type == "Simple"
SolveSimple ==
    /\ pc = "define"
    /\ beam_type = "Simple"
    /\ StoreResults("solve_simple_beam",
                    solve_simple_beam(beam_length, A, B, pointloads, distributedloads,
                                      momentloads, triangleloads, beam_type))

\* cli.py, run analysis, beam_type == "Cantilever"
SolveCantilever ==
    /\ pc = "define"
    /\ beam_type = "Cantilever"
    /\ StoreResults("solve_cantilever_beam",
                    solve_cantilever_beam(beam_length, pointloads, distributedloads,
                                          momentloads, triangleloads))

\* Solver.py, solve_simple_beam called with beam_type = "Cantilever"
SolveCantileverGeneric ==
    /\ pc = "define"
    /\ beam_type = "Cantilever"
    /\ StoreResults("solve_simple_beam",
                    solve_simple_beam(beam_length, A, B, pointloads, distributedloads,
                                      momentloads, triangleloads, beam_type))

\* cli.py, deflection analysis: calculate_beam_deflection on the stored
\* field, whatever the beam type
CalculateDeflection ==
    /\ pc = "solved"
    /\ \E E \in Moduli, I \in Inertias :
        \E res \in {calculate_beam_deflection(X_Field, Total_BendingMoment, E, I)} :
            /\ elastic_modulus' = E
            /\ Ix' = I
            /\ Deflection' = res[1]
            /\ Slope' = res[2]
            /\ curv' = res[3]
    /\ pc' = "deflected"
    /\ UNCHANGED <<inputVars, loadVars, resultVars, stressVars, callVars, menuVars>>

\* cli.py, stress analysis on the stored fields: Q, the shear stress matrix
\* and the bending stress are computed before Factor_of_Safety is called; an
\* exception ends the step in the handler that reports it
CalculateStress ==
    /\ pc = "solved"
    /\ \E I \in Inertias, h \in ExtremeFibres, w \in Widths, ys \in YieldStrengths :
        \E Q \in {first_moment_of_area_rect(w, ProfileYArray(h))},
           fos \in {Factor_of_Safety(Total_BendingMoment, h, ys, I)} :
            /\ Ix' = I
            /\ c' = h
            /\ b' = w
            /\ y_array' = ProfileYArray(h)
            /\ yield_strength' = ys
            /\ Q_array' = Q
            /\ Max_Shear_stress' =
                   MaxAbsMatrix(calculate_shear_stress(Total_ShearForce, Q, I, w))
            /\ Max_bending_stress' =
                   MaxAbs(calculate_bending_stress(Total_BendingMoment, h, I))
            /\ IF fos[1] = "ok"
               THEN FOS' = fos[2] /\ pc' = "stressed"
               ELSE FOS' = FOS /\ pc' = "stress_error"
    /\ UNCHANGED <<inputVars, loadVars, resultVars,
                   elastic_modulus, Deflection, Slope, curv, callVars, menuVars>>

Next ==
    \/ AddPointLoad
    \/ AddDistributedLoad
    \/ AddMomentLoad
    \/ AddTriangularLoad
    \/ SolveSimple
    \/ SolveCantilever
    \/ SolveCantileverGeneric
    \/ CalculateDeflection
    \/ CalculateStress

Spec == Init /\ [][Next]_vars

(***************************************************************************)
(* Direct calls of the entry points of Solver.py: a caller holds a set of  *)
(* arguments, valid or not, and calls solve_simple_beam and                *)
(* solve_cantilever_beam on them in any order, changing the beam length    *)
(* between calls as it likes.  calls is the log of these calls.            *)
(***************************************************************************)
\* largest number of calls in the log
MaxCalls == 3

DirectBeamTypes == {"Simple", "Cantilever", "simple"}
\* <<A, B>>: absent, in order, reversed, coinciding
DirectSupports == {<<None, None>>, <<R(1), R(3)>>, <<R(3), R(1)>>, <<R(1), R(1)>>}
DirectPointLoads == {<<>>, << <<R(2), R(2), R(5)>> >>}
\* none, one of zero length, one of positive length
DirectDistributedLoads ==
    {<<>>, << <<R(1), R(1), R(-2)>> >>, << <<R(1), R(3), R(-2)>> >>}
DirectTriangleLoads ==
    {<<>>, << <<R(2), R(2), R(2), R(4)>> >>, << <<R(1), R(3), R(10), R(0)>> >>}

\* solve_simple_beam raises ValueError when a support of a simple beam is
\* None and when beam_type is neither "Simple" nor "Cantilever"
solve_simple_beam_raises(sA, sB, type) ==
    \/ type = "Simple" /\ (sA = None \/ sB = None)
    \/ type \notin {"Simple", "Cantilever"}

\* a variant with module-level recorders that keep the shear of the calls
\* before
ReturnedBy_Recorder(log, result) ==
    IF \E n \in 1..Len(log) :
           log[n].outcome = "returned" /\ Len(log[n].result[2]) = Len(result[2])
    THEN LET n == CHOOSE n \in 1..Len(log) :
                      log[n].outcome = "returned"
                      /\ Len(log[n].result[2]) = Len(result[2])
         IN  <<result[1],
               [i \in 1..Len(result[2]) |-> RAdd(result[2][i], log[n].result[2][i])],
               result[3], result[4]>>
    ELSE result

\* what a call returns after the calls of the log: the accumulators are
\* created by the call (np.zeros, Va = 0), nothing of an earlier call enters
ReturnedBy(log, result) == result

InitDirect ==
    /\ beam_type \in DirectBeamTypes
    /\ beam_length \in BeamLengths
    /\ \E supports \in DirectSupports : A = supports[1] /\ B = supports[2]
    /\ beam_type # "Simple" => A = None
    /\ pointloads \in DirectPointLoads
    /\ distributedloads \in DirectDistributedLoads
    /\ momentloads = <<>>
    /\ triangleloads \in DirectTriangleLoads
    \* with coinciding supports every load divides by B - A = 0 and the
    \* results are inf and nan, which the arithmetic here does not have: that
    \* case is called with empty load lists only
    /\ (A # None /\ A = B) => NumLoads = 0
    /\ entry = "none"
    /\ X_Field = <<>>
    /\ Total_ShearForce = <<>>
    /\ Total_BendingMoment = <<>>
    /\ Reactions = <<>>
    /\ elastic_modulus = Zero
    /\ Ix = Zero
    /\ Deflection = <<>>
    /\ Slope = <<>>
    /\ curv = <<>>
    /\ NoStress
    /\ NoCalls
    /\ NoMenu
    /\ pc = "direct"

\* the entry of the log for a call
CallRecord(name, how, result) ==
    [name        |-> name,
     beam_length |-> beam_length,
     A           |-> A,
     B           |-> B,
     beam_type   |-> beam_type,
     loads       |-> loadVars,
     loads_after |-> loadVars',
     outcome     |-> how,
     result      |-> result]

\* the caller passes another beam length from now on
SetBeamLength ==
    /\ pc = "direct"
    /\ beam_length' \in BeamLengths \ {beam_length}
    /\ UNCHANGED <<beam_type, A, B, loadVars, resultVars, deflVars, stressVars,
                   callVars, pc, menuVars>>

\* the call raised: the caller's variables keep what they held
Raised(name, exception) ==
    /\ entry' = name
    /\ outcome' = exception
    /\ calls' = Append(calls, CallRecord(name, exception, <<>>))
    /\ UNCHANGED <<X_Field, Total_ShearForce, Total_BendingMoment, Reactions>>

\* the call returned its four values
Returned(name, result) ==
    \E res \in {ReturnedBy(calls, result)} :
        /\ entry' = name
        /\ outcome' = "returned"
        /\ calls' = Append(calls, CallRecord(name, "returned", res))
        /\ X_Field' = res[1]
        /\ Total_ShearForce' = res[2]
        /\ Total_BendingMoment' = res[3]
        /\ Reactions' = res[4]

CallSolveSimpleBeam ==
    /\ pc = "direct"
    /\ Len(calls) < MaxCalls
    /\ UNCHANGED <<inputVars, loadVars, deflVars, stressVars, pc, menuVars>>
    /\ IF solve_simple_beam_raises(A, B, beam_type)
       THEN Raised("solve_simple_beam", "ValueError")
       ELSE Returned("solve_simple_beam",
                     solve_simple_beam(beam_length, A, B, pointloads, distributedloads,
                                       momentloads, triangleloads, beam_type))

CallSolveCantileverBeam ==
    /\ pc = "direct"
    /\ Len(calls) < MaxCalls
    /\ UNCHANGED <<inputVars, loadVars, deflVars, stressVars, pc, menuVars>>
    /\ Returned("solve_cantilever_beam",
                solve_cantilever_beam(beam_length, pointloads, distributedloads,
                                      momentloads, triangleloads))

NextDirect ==
    \/ SetBeamLength
    \/ CallSolveSimpleBeam
    \/ CallSolveCantileverBeam

SpecDirect == InitDirect /\ [][NextDirect]_vars

(***************************************************************************)
(* Direct calls of SuperSolver.solve_cantilever with the fixed end at      *)
(* A = 0: the caller passes lists of point loads, UDLs and point moments   *)
(* placed inside the beam.                                                 *)
(***************************************************************************)
\* the sequences over S of length at most n
ListsUpTo(S, n) == UNION {[1..k -> S] : k \in 0..n}

\* <<start, end, w>>
SuperDistributedLoads ==
    {<<span[1], span[2], w>> : span \in Spans, w \in UDLIntensities}

InitSuper ==
    /\ beam_type = "Cantilever"
    /\ beam_length \in BeamLengths
    /\ A = Zero
    /\ B = None
    /\ pointloads \in ListsUpTo(PointLoadInputs, MaxLoads)
    /\ distributedloads \in ListsUpTo(SuperDistributedLoads, MaxLoads)
    /\ momentloads \in ListsUpTo(MomentLoadInputs, MaxLoads)
    /\ triangleloads = <<>>
    /\ NumLoads <= MaxLoads
    /\ \A n \in 1..Len(pointloads) : OnBeam(pointloads[n][1])
    /\ \A n \in 1..Len(distributedloads) :
           OnBeam(distributedloads[n][1]) /\ OnBeam(distributedloads[n][2])
    /\ \A n \in 1..Len(momentloads) : OnBeam(momentloads[n][1])
    /\ entry = "none"
    /\ X_Field = <<>>
    /\ Total_ShearForce = <<>>
    /\ Total_BendingMoment = <<>>
    /\ Reactions = <<>>
    /\ elastic_modulus = Zero
    /\ Ix = Zero
    /\ Deflection = <<>>
    /\ Slope = <<>>
    /\ curv = <<>>
    /\ NoStress
    /\ NoCalls
    /\ NoMenu
    /\ pc = "super"

CallSolveCantilever ==
    /\ pc = "super"
    /\ \E res \in {solve_cantilever(beam_length, A, pointloads, distributedloads,
                                     momentloads)} :
        /\ X_Field' = res[1]
        /\ Total_ShearForce' = res[2]
        /\ Total_BendingMoment' = res[3]
        /\ Reactions' = res[4]
    /\ entry' = "solve_cantilever"
    /\ pc' = "super_returned"
    /\ UNCHANGED <<inputVars, loadVars, deflVars, stressVars, callVars, menuVars>>

NextSuper == CallSolveCantilever

SpecSuper == InitSuper /\ [][NextSuper]_vars

(***************************************************************************)
(* cli.py, run_extended_menu: the menu session.  Every action is one       *)
(* choice of the main menu or of a submenu, carried out to the point where *)
(* the menu asks again; outcome is what the choice reported.  The project  *)
(* file holds DiskProjects; the offer to save unsaved changes is declined  *)
(* (save_project has its own specification below), and the calculations    *)
(* that follow an analysis are those of Spec.                              *)
(***************************************************************************)
\* strings are sequences of characters where the code converts them
LowerChar(ch) == CASE ch = "A" -> "a" [] ch = "B" -> "b" [] ch = "Y" -> "y" [] OTHER -> ch

\* str.lower()
lower(str) == [i \in 1..Len(str) |-> LowerChar(str[i])]

RECURSIVE lstrip(_)
lstrip(str) ==
    IF str # <<>> /\ Head(str) = " " THEN lstrip(Tail(str)) ELSE str

RECURSIVE rstrip(_)
rstrip(str) ==
    IF str # <<>> /\ str[Len(str)] = " "
    THEN rstrip(SubSeq(str, 1, Len(str) - 1))
    ELSE str

\* str.strip()
strip(str) == rstrip(lstrip(str))

\* beam_type before Beam_Classification has returned: Python's None
NoBeamType == "None"

\* what a choice reports: the three reports of "run analysis", and Done
\* for every other choice
Done == "done"
AnalysisRequires == "Analysis requires profile, material, supports and loads to be defined!"
AnalysisCompleted == "BEAM ANALYSIS COMPLETED SUCCESSFULLY!"
ErrorSolvingBeam == "Error solving beam"

\* inputs.py, manage_loads: the dictionary of the four lists
LoadsDict(pl, dl, ml, tl) ==
    [pointloads |-> pl, distributedloads |-> dl, momentloads |-> ml, triangleloads |-> tl]

\* moi_solver.py, inertia_moment_rectangle: <<Ix, shape, c, b, y_array>>
inertia_moment_rectangle(width, h) ==
    LET half_h   == RDiv(h, R(2))
        Ix_total == RDiv(RMul(width, RMul(h, RMul(h, h))), R(12))
    IN  <<Ix_total, "Rectangle", half_h, width, ProfileYArray(half_h)>>

\* what the user types in the menu
MenuLoadInputs ==
    {LoadsDict(<<>>, <<>>, <<>>, <<>>),
     LoadsDict(<< <<R(1), R(2), R(5)>> >>, <<>>, <<>>, <<>>)}
\* the length typed for Beam_Length, positive
MenuBeamLengths == {R(3)}
\* <<A, B>> typed for Beam_Supports, 0 <= A < B
MenuSupportInputs == {<<R(1), R(3)>>}
\* <<width, height>> of the rectangle
MenuProfileInputs == {<<R(1), R(4)>>}
\* Materials.json: strengths in MPa, modulus in GPa
MenuMaterials ==
    {[Material          |-> "Nylon",
      Density           |-> R(1150),
      Yield_Strength    |-> R(60),
      Ultimate_Strength |-> R(80),
      Elastic_Modulus   |-> R(2),
      Poisson_Ratio     |-> Frac(2, 5)]}

\* inputs.py, Beam_Supports: <<A, B, A_type, B_type>> of a valid pair (an
\* invalid pair is asked for again), or four times None on a ValueError
Beam_Supports ==
    {<<typed[1], typed[2], "Pin Support", "Roller Support">> : typed \in MenuSupportInputs}
        \cup {<<None, None, "None", "None">>}

\* bool() of a string that may be None
TruthyString(str) == str \notin {"", "None"}

\* cli.py, save_project: the dictionary of a project (the arrays of results
\* that load_project reads back into module-level names are left out: the
\* menu works on its own local arrays)
ProjectData(project_name) ==
    [name               |-> project_name,
     beam_type          |-> beam_type,
     beam_length        |-> beam_length,
     support_A_pos      |-> A,
     support_B_pos      |-> B,
     support_A_type     |-> A_type,
     support_B_type     |-> B_type,
     loads              |-> loads,
     profile            |-> [Ix |-> Ix, shape |-> shape, c |-> c, b |-> b, y_array |-> y_array],
     material           |-> [material |-> selected_material]]

\* beam_projects.json: a simple beam and a cantilever saved by earlier
\* sessions
DiskProjects ==
    LET profile  == inertia_moment_rectangle(R(1), R(4))
        material == CHOOSE m \in MenuMaterials : TRUE
    IN  << [name               |-> <<"a">>,
            beam_type          |-> "Simple",
            beam_length        |-> R(3),
            support_A_pos      |-> R(0),
            support_B_pos      |-> R(3),
            support_A_type     |-> "Pin Support",
            support_B_type     |-> "Roller Support",
            loads              |-> LoadsDict(<< <<R(1), R(2), R(5)>> >>, <<>>, <<>>, <<>>),
            profile            |-> [Ix |-> profile[1], shape |-> profile[2], c |-> profile[3],
                                    b |-> profile[4], y_array |-> profile[5]],
            material           |-> [material |-> material]],
           [name               |-> <<"b">>,
            beam_type          |-> "Cantilever",
            beam_length        |-> R(3),
            support_A_pos      |-> Zero,
            support_B_pos      |-> Zero,
            support_A_type     |-> "",
            support_B_type     |-> "",
            loads              |-> LoadsDict(<<>>, <<>>, <<>>, <<>>),
            profile            |-> [Ix |-> profile[1], shape |-> profile[2], c |-> profile[3],
                                    b |-> profile[4], y_array |-> profile[5]],
            material           |-> [material |-> material]] >>

\* the module-level values of cli.py, after init() and the
\* load_projects_from_disk() of run_extended_menu
InitMenu ==
    /\ beam_type = NoBeamType
    /\ beam_length = Zero
    /\ A = Zero
    /\ B = Zero
    /\ pointloads = <<>>
    /\ distributedloads = <<>>
    /\ momentloads = <<>>
    /\ triangleloads = <<>>
    /\ entry = "none"
    /\ X_Field = <<>>
    /\ Total_ShearForce = <<>>
    /\ Total_BendingMoment = <<>>
    /\ Reactions = <<>>
    /\ elastic_modulus = Zero
    /\ Ix = Zero
    /\ Deflection = <<>>
    /\ Slope = <<>>
    /\ curv = <<>>
    /\ NoStress
    /\ NoCalls
    /\ project_state = InitialProjectState
    /\ beam_storage = DiskProjects
    /\ current_project = <<>>
    /\ shape = ""
    /\ selected_material = Falsy
    /\ A_type = ""
    /\ B_type = ""
    /\ loads = Falsy
    /\ pc = "menu"

\* a choice other than "run analysis" is carried out in the menu
MenuChoice ==
    /\ pc = "menu"
    /\ outcome' = Done
    /\ UNCHANGED <<calls, pc>>

\* "Project already has ... defined. Modify? (Y/N)": asked of a loaded
\* project whose flag is set; any answer but y leaves the menu as it is
Declined(flag, confirmation) ==
    project_state.is_loaded /\ project_state[flag] /\ lower(confirmation) # <<"y">>

Confirmations == {<<"Y">>, <<"n">>}

\* project management 1: New_Project() and beam_type = None
NewProject ==
    /\ MenuChoice
    /\ current_project' = <<>>
    /\ project_state' = InitialProjectState
    /\ beam_type' = NoBeamType
    /\ UNCHANGED <<beam_length, A, B, loadVars, resultVars, deflVars, stressVars,
                   beam_storage, shape, selected_material, A_type, B_type, loads>>

\* project management 2: load_project() with the number of a project
LoadProject ==
    /\ MenuChoice
    /\ beam_storage' = DiskProjects
    /\ \E proj_choice \in 1..Len(DiskProjects) :
        LET project == DiskProjects[proj_choice]
            material == project.material.material
        IN  /\ current_project' = <<project>>
            /\ beam_type' = project.beam_type
            /\ beam_length' = project.beam_length
            /\ A' = project.support_A_pos
            /\ B' = project.support_B_pos
            /\ A_type' = project.support_A_type
            /\ B_type' = project.support_B_type
            /\ loads' = project.loads
            /\ pointloads' = project.loads.pointloads
            /\ distributedloads' = project.loads.distributedloads
            /\ momentloads' = project.loads.momentloads
            /\ triangleloads' = project.loads.triangleloads
            /\ Ix' = project.profile.Ix
            /\ shape' = project.profile.shape
            /\ c' = project.profile.c
            /\ b' = project.profile.b
            /\ y_array' = project.profile.y_array
            /\ selected_material' = material
            /\ IF material # Falsy
               THEN /\ yield_strength' = RMul(material.Yield_Strength, R(1000000))
                    /\ elastic_modulus' = RMul(material.Elastic_Modulus, R(1000000000))
               ELSE UNCHANGED <<yield_strength, elastic_modulus>>
            /\ project_state' =
                   [project_state EXCEPT
                        !.is_loaded = TRUE,
                        !.profile_saved = project.profile.shape # ""
                                          /\ RLt(Zero, project.profile.Ix),
                        !.material_saved = material # Falsy,
                        !.loads_saved = project.loads # Falsy,
                        !.supports_saved = TruthyString(project.support_A_type)
                                           /\ TruthyString(project.support_B_type),
                        !.has_unsaved_changes = FALSE]
    /\ UNCHANGED <<resultVars, Deflection, Slope, curv,
                   Q_array, Max_Shear_stress, Max_bending_stress, FOS>>

\* project management 2 with an answer that is no number: "Invalid choice!
\* Starting a new project instead."
LoadProjectInvalidChoice ==
    /\ MenuChoice
    /\ beam_storage' = DiskProjects
    /\ current_project' = <<>>
    /\ UNCHANGED <<inputVars, loadVars, resultVars, deflVars, stressVars,
                   project_state, shape, selected_material, A_type, B_type, loads>>

\* project management 3: modify_loaded_project_data(), choices 1 to 4
ModifyProject ==
    /\ project_state.is_loaded
    /\ MenuChoice
    /\ \E flag \in {"profile_saved", "material_saved", "supports_saved", "loads_saved"} :
        project_state' = [project_state EXCEPT ![flag] = FALSE,
                                               !.has_unsaved_changes = TRUE]
    /\ UNCHANGED <<inputVars, loadVars, resultVars, deflVars, stressVars,
                   beam_storage, current_project, shape, selected_material,
                   A_type, B_type, loads>>

\* the main menu turns the choices 3 to 10 away while beam_type is None, and
\* the boundary conditions menu those of a cantilever

\* main menu 2: Beam_Classification(); the project in hand is the same
\* dictionary as its entry of beam_storage
DefineBeamType ==
    /\ MenuChoice
    /\ \E type \in {"Simple", "Cantilever"} :
        /\ beam_type' = type
        /\ project_state' =
               [project_state EXCEPT
                    !.supports_saved = (type = "Cantilever") \/ @,
                    !.has_unsaved_changes = (current_project # <<>>) \/ @]
        /\ IF current_project # <<>>
           THEN /\ current_project' = <<[current_project[1] EXCEPT !.beam_type = type]>>
                /\ beam_storage' =
                       [n \in 1..Len(beam_storage) |->
                            IF beam_storage[n] = current_project[1]
                            THEN [beam_storage[n] EXCEPT !.beam_type = type]
                            ELSE beam_storage[n]]
           ELSE UNCHANGED <<current_project, beam_storage>>
    /\ UNCHANGED <<beam_length, A, B, loadVars, resultVars, deflVars, stressVars,
                   shape, selected_material, A_type, B_type, loads>>

\* profile definition 1: Beam_Length()
DefineBeamLength ==
    /\ beam_type # NoBeamType
    /\ MenuChoice
    /\ \E confirmation \in Confirmations, length \in MenuBeamLengths :
        IF Declined("profile_saved", confirmation)
        THEN UNCHANGED <<beam_length, project_state>>
        ELSE /\ beam_length' = length
             /\ project_state' = [project_state EXCEPT !.has_unsaved_changes = TRUE]
    /\ UNCHANGED <<beam_type, A, B, loadVars, resultVars, deflVars, stressVars,
                   beam_storage, current_project, shape, selected_material,
                   A_type, B_type, loads>>

\* profile definition 2: choose_profile() and the rectangle
ChooseProfile ==
    /\ beam_type # NoBeamType
    /\ MenuChoice
    /\ \E confirmation \in Confirmations, typed \in MenuProfileInputs :
        IF Declined("profile_saved", confirmation)
        THEN UNCHANGED <<Ix, shape, c, b, y_array, project_state>>
        ELSE LET profile == inertia_moment_rectangle(typed[1], typed[2])
             IN  /\ Ix' = profile[1]
                 /\ shape' = profile[2]
                 /\ c' = profile[3]
                 /\ b' = profile[4]
                 /\ y_array' = profile[5]
                 /\ project_state' = [project_state EXCEPT !.profile_saved = TRUE,
                                                           !.has_unsaved_changes = TRUE]
    /\ UNCHANGED <<inputVars, loadVars, resultVars, elastic_modulus, Deflection, Slope,
                   curv, yield_strength, Q_array, Max_Shear_stress, Max_bending_stress,
                   FOS, beam_storage, current_project, selected_material,
                   A_type, B_type, loads>>

\* material selection 1: select_material() and the conversion to Pa
SelectMaterial ==
    /\ beam_type # NoBeamType
    /\ MenuChoice
    /\ \E confirmation \in Confirmations, material \in MenuMaterials :
        IF Declined("material_saved", confirmation)
        THEN UNCHANGED <<selected_material, yield_strength, elastic_modulus, project_state>>
        ELSE /\ selected_material' = material
             /\ yield_strength' = RMul(material.Yield_Strength, R(1000000))
             /\ elastic_modulus' = RMul(material.Elastic_Modulus, R(1000000000))
             /\ project_state' = [project_state EXCEPT !.material_saved = TRUE,
                                                       !.has_unsaved_changes = TRUE]
    /\ UNCHANGED <<inputVars, loadVars, resultVars, Ix, Deflection, Slope, curv,
                   c, b, y_array, Q_array, Max_Shear_stress, Max_bending_stress, FOS,
                   beam_storage, current_project, shape, A_type, B_type, loads>>

\* boundary conditions 1 of a simple beam: the flag is set whatever
\* Beam_Supports() returned
DefineSupports ==
    /\ beam_type = "Simple"
    /\ MenuChoice
    /\ \E confirmation \in Confirmations, returned \in Beam_Supports :
        IF Declined("supports_saved", confirmation)
        THEN UNCHANGED <<A, B, A_type, B_type, project_state>>
        ELSE /\ A' = returned[1]
             /\ B' = returned[2]
             /\ A_type' = returned[3]
             /\ B_type' = returned[4]
             /\ project_state' = [project_state EXCEPT !.supports_saved = TRUE,
                                                       !.has_unsaved_changes = TRUE]
    /\ UNCHANGED <<beam_type, beam_length, loadVars, resultVars, deflVars, stressVars,
                   beam_storage, current_project, shape, selected_material, loads>>

\* loads definition 1: manage_loads()
DefineLoads ==
    /\ beam_type # NoBeamType
    /\ MenuChoice
    /\ \E confirmation \in Confirmations, loads_dict \in MenuLoadInputs :
        IF Declined("loads_saved", confirmation)
        THEN UNCHANGED <<loadVars, loads, project_state>>
        ELSE /\ pointloads' = loads_dict.pointloads
             /\ distributedloads' = loads_dict.distributedloads
             /\ momentloads' = loads_dict.momentloads
             /\ triangleloads' = loads_dict.triangleloads
             /\ loads' = loads_dict
             /\ project_state' = [project_state EXCEPT !.loads_saved = TRUE,
                                                       !.has_unsaved_changes = TRUE]
    /\ UNCHANGED <<inputVars, resultVars, deflVars, stressVars,
                   beam_storage, current_project, shape, selected_material,
                   A_type, B_type>>

\* a variant of the condition that does not ask for the supports
AnalysisRequirementsMet_WithoutSupports ==
    /\ project_state.profile_saved
    /\ project_state.material_saved
    /\ project_state.loads_saved

\* the condition of the analysis menu on project_state
AnalysisRequirementsMet ==
    /\ project_state.profile_saved
    /\ project_state.material_saved
    /\ project_state.loads_saved
    /\ project_state.supports_saved

\* the call of the solver raises: np.arange with the step 0 of a beam of
\* length 0, or the ValueError of solve_simple_beam
MenuSolverRaises ==
    \/ beam_length = Zero
    \/ beam_type = "Simple" /\ solve_simple_beam_raises(A, B, beam_type)

\* what the solver called for beam_type returns
MenuSolverResult ==
    IF beam_type = "Simple"
    THEN solve_simple_beam(beam_length, A, B, pointloads, distributedloads,
                           momentloads, triangleloads, beam_type)
    ELSE solve_cantilever_beam(beam_length, pointloads, distributedloads,
                               momentloads, triangleloads)

\* analysis 1: run analysis
RunAnalysis ==
    /\ beam_type # NoBeamType
    /\ pc = "menu"
    /\ UNCHANGED <<inputVars, loadVars, deflVars, stressVars, calls, pc,
                   beam_storage, current_project, shape, selected_material,
                   A_type, B_type, loads>>
    /\ IF ~ AnalysisRequirementsMet
       THEN /\ outcome' = AnalysisRequires
            /\ UNCHANGED <<resultVars, project_state>>
       ELSE IF MenuSolverRaises
       THEN /\ outcome' = ErrorSolvingBeam
            /\ UNCHANGED <<resultVars, project_state>>
       ELSE \E res \in {MenuSolverResult} :
            /\ X_Field' = res[1]
            /\ Total_ShearForce' = res[2]
            /\ Total_BendingMoment' = res[3]
            /\ Reactions' = res[4]
            /\ entry' = IF beam_type = "Simple"
                        THEN "solve_simple_beam" ELSE "solve_cantilever_beam"
            /\ project_state' = [project_state EXCEPT !.analysis_complete = TRUE,
                                                      !.has_unsaved_changes = TRUE]
            /\ outcome' = AnalysisCompleted

NextMenu ==
    \/ NewProject
    \/ LoadProject
    \/ LoadProjectInvalidChoice
    \/ ModifyProject
    \/ DefineBeamType
    \/ DefineBeamLength
    \/ ChooseProfile
    \/ SelectMaterial
    \/ DefineSupports
    \/ DefineLoads
    \/ RunAnalysis

SpecMenu == InitMenu /\ [][NextMenu]_vars

(***************************************************************************)
(* cli.py, save_project, called any number of times on a defined beam.     *)
(* calls holds the latest call: the name and the answer typed, and what    *)
(* the call returned.                                                      *)
(***************************************************************************)
\* most projects in beam_storage before the first call
MaxStored == 2

\* what is typed at "Enter a name for this project"
ProjectNames ==
    {<<"a">>, <<"A">>, <<" ", "A">>, <<"b">>, <<"B", " ">>, <<"c">>, <<>>, <<" ">>}

\* names of the projects of beam_projects.json
StoredNames == {<<"a">>, <<"A">>, <<"b">>}

ProjectNameEmpty == "Project name cannot be empty!"
SaveCancelled == "Save cancelled."
ProjectUpdated == "updated successfully!"
ProjectSaved == "saved successfully!"

\* the test of the loop over beam_storage, read case-sensitively
SameProjectName_CaseSensitive(stored, typed) == stored = typed

\* proj['name'].lower() == project_name.lower()
SameProjectName(stored, typed) == lower(stored) = lower(typed)

\* a project saved by an earlier session under the name project_name
StoredAs(project_name) == [DiskProjects[1] EXCEPT !.name = project_name]

\* no two projects of the list have names that are equal ignoring case
UniqueIgnoringCase(storage) ==
    \A m, n \in 1..Len(storage) :
        lower(storage[m].name) = lower(storage[n].name) => m = n

\* a cantilever with its profile, material and (empty) loads defined, and
\* a beam_storage in which no name occurs twice
InitSave ==
    /\ beam_type = "Cantilever"
    /\ beam_length = R(3)
    /\ A = Zero
    /\ B = Zero
    /\ pointloads = <<>>
    /\ distributedloads = <<>>
    /\ momentloads = <<>>
    /\ triangleloads = <<>>
    /\ entry = "none"
    /\ X_Field = <<>>
    /\ Total_ShearForce = <<>>
    /\ Total_BendingMoment = <<>>
    /\ Reactions = <<>>
    /\ Deflection = <<>>
    /\ Slope = <<>>
    /\ curv = <<>>
    /\ \E profile \in {inertia_moment_rectangle(R(1), R(4))},
          material \in MenuMaterials :
        /\ Ix = profile[1]
        /\ shape = profile[2]
        /\ c = profile[3]
        /\ b = profile[4]
        /\ y_array = profile[5]
        /\ selected_material = material
        /\ yield_strength = RMul(material.Yield_Strength, R(1000000))
        /\ elastic_modulus = RMul(material.Elastic_Modulus, R(1000000000))
    /\ Q_array = <<>>
    /\ Max_Shear_stress = Zero
    /\ Max_bending_stress = Zero
    /\ FOS = Zero
    /\ NoCalls
    /\ A_type = ""
    /\ B_type = ""
    /\ loads = LoadsDict(<<>>, <<>>, <<>>, <<>>)
    /\ \E names \in ListsUpTo(StoredNames, MaxStored) :
        /\ beam_storage = [n \in 1..Len(names) |-> StoredAs(names[n])]
        /\ UniqueIgnoringCase(beam_storage)
    /\ current_project \in {<<>>} \cup {<<beam_storage[n]>> : n \in 1..Len(beam_storage)}
    /\ \E unsaved \in BOOLEAN :
        project_state = [InitialProjectState EXCEPT
                             !.is_loaded = current_project # <<>>,
                             !.profile_saved = TRUE,
                             !.material_saved = TRUE,
                             !.loads_saved = TRUE,
                             !.supports_saved = TRUE,
                             !.has_unsaved_changes = unsaved]
    /\ pc = "save"

\* the entry of calls for a call of save_project
SaveCall(typed, confirmation, returned) ==
    [name         |-> "save_project",
     project_name |-> typed,
     confirmation |-> confirmation,
     returned     |-> returned]

\* save_project(): the name is typed, stripped and looked up; the first
\* project of that name is overwritten after a 'y', otherwise the project is
\* appended
save_project ==
    /\ pc = "save"
    /\ UNCHANGED <<inputVars, loadVars, resultVars, deflVars, stressVars, pc,
                   shape, selected_material, A_type, B_type, loads>>
    /\ \E typed \in ProjectNames :
        LET project_name == strip(typed)
            project_data == ProjectData(project_name)
            found == {n \in 1..Len(beam_storage) :
                          SameProjectName(beam_storage[n].name, project_name)}
            saved == [project_state EXCEPT !.has_unsaved_changes = FALSE]
        IN  IF project_name = <<>>
            THEN /\ outcome' = ProjectNameEmpty
                 /\ calls' = <<SaveCall(typed, <<>>, FALSE)>>
                 /\ UNCHANGED <<beam_storage, current_project, project_state>>
            ELSE IF found # {}
            THEN \E confirmation \in Confirmations :
                    LET idx == CHOOSE n \in found : \A m \in found : n <= m
                    IN  IF lower(confirmation) = <<"y">>
                        THEN /\ beam_storage' = [beam_storage EXCEPT ![idx] = project_data]
                             /\ current_project' = <<project_data>>
                             /\ project_state' = saved
                             /\ outcome' = ProjectUpdated
                             /\ calls' = <<SaveCall(typed, confirmation, TRUE)>>
                        ELSE /\ outcome' = SaveCancelled
                             /\ calls' = <<SaveCall(typed, confirmation, FALSE)>>
                             /\ UNCHANGED <<beam_storage, current_project,
                                            project_state>>
            ELSE /\ beam_storage' = Append(beam_storage, project_data)
                 /\ current_project' = <<project_data>>
                 /\ project_state' = saved
                 /\ outcome' = ProjectSaved
                 /\ calls' = <<SaveCall(typed, <<>>, TRUE)>>

NextSave == save_project

SpecSave == InitSave /\ [][NextSave]_vars

(***************************************************************************)
(* Statics of the applied loads, independent of the solver: resultants,    *)
(* centroids and moments as the equilibrium conditions need them.          *)
(***************************************************************************)
Solved == pc # "define"

Last(a) == a[Len(a)]

AllZero(a) == \A i \in 1..Len(a) : a[i] = Zero

\* resultant and centroid of a uniform load
UDLForce(d) == RMul(d[3], RSub(d[2], d[1]))
UDLCentroid(d) == RDiv(RAdd(d[1], d[2]), R(2))

\* resultant of a linearly varying load: 0.5 * (w1 + w2) * (end - start)
TRLForce(tr) == RMul(RMul(Half, RAdd(tr[3], tr[4])), RSub(tr[2], tr[1]))

\* centroid of a linearly varying load whose intensities have the same sign:
\* start + (end - start) * (w1 + 2 * w2) / (3 * (w1 + w2))
TRLTrueCentroid(tr) ==
    RAdd(tr[1], RDiv(RMul(RSub(tr[2], tr[1]), RAdd(tr[3], RMul(R(2), tr[4]))),
                     RMul(R(3), RAdd(tr[3], tr[4]))))

\* exactly one intensity is nonzero
PureTriangle(tr) == (tr[3] = Zero) # (tr[4] = Zero)
Trapezoid(tr) == tr[3] # Zero /\ tr[4] # Zero
\* nonzero at the start, zero at the end
FallingTriangle(tr) == tr[3] # Zero /\ tr[4] = Zero

PureTriangles == \A n \in 1..Len(triangleloads) : PureTriangle(triangleloads[n])

\* sum of all applied vertical forces
AppliedVerticalForce ==
    RSum([n \in 1..Len(pointloads) |-> pointloads[n][3]]
         \o [n \in 1..Len(distributedloads) |-> UDLForce(distributedloads[n])]
         \o [n \in 1..Len(triangleloads) |-> TRLForce(triangleloads[n])])

\* sum of F_i * (x_i - P): the moment of the applied forces about the point P,
\* upward forces and counter-clockwise moments positive
AppliedForceMomentAbout(P) ==
    RSum([n \in 1..Len(pointloads) |->
              RMul(pointloads[n][3], RSub(pointloads[n][1], P))]
         \o [n \in 1..Len(distributedloads) |->
              RMul(UDLForce(distributedloads[n]),
                   RSub(UDLCentroid(distributedloads[n]), P))]
         \o [n \in 1..Len(triangleloads) |->
              RMul(TRLForce(triangleloads[n]),
                   RSub(TRLTrueCentroid(triangleloads[n]), P))])

\* sum of the applied point moments
AppliedPointMoments == RSum([n \in 1..Len(momentloads) |-> momentloads[n][2]])

(***************************************************************************)
(* C1.  Simply-supported vertical equilibrium: for point loads, point      *)
(* moments, UDLs and pure triangular loads the reactions of                *)
(* calculate_all_reactions satisfy Va + Vb + (sum of applied vertical      *)
(* forces) = 0.  Reactions = <<Va, Vb, Ha>>.                               *)
(***************************************************************************)
C1_SimpleVerticalEquilibrium ==
    (Solved /\ beam_type = "Simple" /\ PureTriangles)
        => RAdd(RAdd(Reactions[1], Reactions[2]), AppliedVerticalForce) = Zero

C1_Witness ==
    /\ Solved /\ beam_type = "Simple" /\ PureTriangles
    /\ Len(triangleloads) = 1 /\ Len(pointloads) = 1
    /\ Reactions[1] # Zero /\ Reactions[2] # Zero
    /\ AppliedVerticalForce # Zero

(***************************************************************************)
(* C2.  Simply-supported moment equilibrium about A, upward forces and     *)
(* counter-clockwise moments positive:                                     *)
(*   Vb * (B - A) + sum F_i * (x_i - A) + sum M_i = 0.                     *)
(* Stated for load lists without trapezoids (their resultant is the        *)
(* subject of C5), so that what refutes it is the point-moment term.       *)
(***************************************************************************)
C2_SimpleMomentEquilibrium ==
    (Solved /\ beam_type = "Simple" /\ PureTriangles)
        => RAdd(RAdd(RMul(Reactions[2], RSub(B, A)), AppliedForceMomentAbout(A)),
                AppliedPointMoments) = Zero

(***************************************************************************)
(* C3.  Cantilever vertical equilibrium: Calculate_Cantilever_Reactions    *)
(* returns Va with Va + (sum of applied vertical forces) = 0, a linearly   *)
(* varying load counting 0.5 * (w1 + w2) * (end - start).                  *)
(***************************************************************************)
C3_CantileverVerticalEquilibrium ==
    (Solved /\ beam_type = "Cantilever")
        => RAdd(Reactions[1], AppliedVerticalForce) = Zero

C3_Witness ==
    /\ Solved /\ beam_type = "Cantilever"
    /\ \E n \in 1..Len(triangleloads) : Trapezoid(triangleloads[n])
    /\ Len(distributedloads) = 1
    /\ Reactions[1] # Zero

(***************************************************************************)
(* C4.  Cantilever fixed-end moment: Ma = -(sum F_i * x_i) - (sum M_i),    *)
(* x_i the true centroid of each load measured from the fixed end; for a   *)
(* trapezoid x_i = start + (end - start) * (w1 + 2 w2) / (3 (w1 + w2)).    *)
(* Ma is the third reaction of both cantilever entry points.               *)
(***************************************************************************)
C4_CantileverFixedEndMoment ==
    (Solved /\ beam_type = "Cantilever")
        => Reactions[3] = RSub(RNeg(AppliedForceMomentAbout(Zero)), AppliedPointMoments)

(***************************************************************************)
(* C5.  A trapezoidal load (both intensities nonzero) on a simply          *)
(* supported beam enters the reactions with its true resultant             *)
(* 0.5 * (w1 + w2) * (end - start): Va + Vb balances the applied forces.   *)
(***************************************************************************)
C5_SimpleTrapezoidResultant ==
    (/\ Solved /\ beam_type = "Simple"
     /\ \E n \in 1..Len(triangleloads) : Trapezoid(triangleloads[n]))
        => RAdd(RAdd(Reactions[1], Reactions[2]), AppliedVerticalForce) = Zero

(***************************************************************************)
(* C6.  Triangular-load centroid rule.  The reactions of a load list are   *)
(* compared with those of the list in which every falling triangular load  *)
(* (nonzero at the start, zero at the end) is replaced by a point load     *)
(* 0.5 * intensity_start * (end - start) placed at                         *)
(* start + fraction * (end - start).                                       *)
(***************************************************************************)
\* the reactions the solver that produced the results computes for a load list
ReactionsFor(pl, ml, dl, tl) ==
    IF beam_type = "Simple"
    THEN calculate_all_reactions(A, B, pl, ml, dl, tl)
    ELSE Calculate_Cantilever_Reactions(pl, ml, dl, tl)

FallingAsPointLoad(tr, fraction) ==
    <<RAdd(tr[1], RMul(fraction, RSub(tr[2], tr[1]))),
      Zero,
      RMul(RMul(Half, tr[3]), RSub(tr[2], tr[1]))>>

NotFalling(tr) == ~ FallingTriangle(tr)

ReactionsWithFallingAt(fraction) ==
    LET falling == SelectSeq(triangleloads, FallingTriangle)
    IN  ReactionsFor(
            pointloads \o [n \in 1..Len(falling) |->
                               FallingAsPointLoad(falling[n], fraction)],
            momentloads, distributedloads, SelectSeq(triangleloads, NotFalling))

\* C6 as claimed: the resultant of a falling triangular load, e.g.
\* [0, 4, 10, 0], is placed at start + (2/3) * (end - start)
C6_FallingCentroidTwoThirds ==
    Solved => Reactions = ReactionsWithFallingAt(TwoThirds)

\* C6 as amended: the resultant of a falling triangular load is placed at
\* start + (1/3) * (end - start), the centroid of the triangle
C6_FallingCentroidOneThird ==
    Solved => Reactions = ReactionsWithFallingAt(Third)

\* the load of the specification's scenario, alone on a beam supported at its
\* ends: Vb = 20 * (0 - 4/3) / 4 and Va = -20 - Vb
C6_Witness ==
    /\ Solved
    /\ beam_type = "Simple" /\ A = R(0) /\ B = R(4)
    /\ triangleloads = << <<R(0), R(4), R(10), R(0)>> >>
    /\ NumLoads = 1
    /\ Reactions = <<Frac(-40, 3), Frac(-20, 3), Zero>>

(***************************************************************************)
(* C7.  Superposition: for both beam types, whenever the load lists are    *)
(* the concatenation L1 + L2, the reactions, the shear array and the       *)
(* moment array of the solve are the elementwise sums of those of solving  *)
(* L1 alone and L2 alone on the same beam.                                 *)
(***************************************************************************)
\* the entry point that produced the results, applied to other load lists
SolveWith(pl, dl, ml, tl) ==
    IF entry = "solve_cantilever_beam"
    THEN solve_cantilever_beam(beam_length, pl, dl, ml, tl)
    ELSE solve_simple_beam(beam_length, A, B, pl, dl, ml, tl, beam_type)

AddArrays(a1, a2) == [i \in 1..Len(a1) |-> RAdd(a1[i], a2[i])]

Prefix(s, k) == SubSeq(s, 1, k)
Suffix(s, k) == SubSeq(s, k + 1, Len(s))

C7_Superposition ==
    pc = "solved" =>
        \A i \in 0..Len(pointloads), j \in 0..Len(distributedloads),
           k \in 0..Len(momentloads), l \in 0..Len(triangleloads) :
            \E r1 \in {SolveWith(Prefix(pointloads, i), Prefix(distributedloads, j),
                                 Prefix(momentloads, k), Prefix(triangleloads, l))},
               r2 \in {SolveWith(Suffix(pointloads, i), Suffix(distributedloads, j),
                                 Suffix(momentloads, k), Suffix(triangleloads, l))} :
                /\ Len(r1[2]) = Len(Total_ShearForce)
                /\ Len(r2[2]) = Len(Total_ShearForce)
                /\ Total_ShearForce = AddArrays(r1[2], r2[2])
                /\ Total_BendingMoment = AddArrays(r1[3], r2[3])
                /\ Reactions = AddArrays(r1[4], r2[4])

C7_Witness ==
    /\ pc = "solved"
    /\ Len(triangleloads) = 2
    /\ triangleloads[1] # triangleloads[2]
    /\ \E i \in 1..Len(Total_BendingMoment) : Total_BendingMoment[i] # Zero
    /\ \E i \in 1..Len(Total_ShearForce) : Total_ShearForce[i] # Zero

(***************************************************************************)
(* C8.  Zero-load case: with all four load lists empty the solver returns  *)
(* all-zero reactions and all-zero shear and moment at every sample, and   *)
(* calculate_beam_deflection on that moment field returns all-zero         *)
(* deflection, slope and curvature.                                        *)
(***************************************************************************)
C8_ZeroLoad ==
    NumLoads = 0 =>
        /\ Solved =>
            /\ Len(Reactions) = 3
            /\ Len(Total_ShearForce) = Divisions + 1
            /\ Len(Total_BendingMoment) = Divisions + 1
            /\ AllZero(Reactions)
            /\ AllZero(Total_ShearForce)
            /\ AllZero(Total_BendingMoment)
        /\ pc = "deflected" =>
            /\ Len(Deflection) = Divisions + 1
            /\ Len(Slope) = Divisions + 1
            /\ Len(curv) = Divisions + 1
            /\ AllZero(Deflection)
            /\ AllZero(Slope)
            /\ AllZero(curv)

C8_Witness ==
    /\ NumLoads = 0
    /\ pc = "deflected"
    /\ entry = "solve_cantilever_beam"
    /\ Len(Deflection) = Divisions + 1

(***************************************************************************)
(* C9.  Cantilever boundary values: in the output of                       *)
(* solve_cantilever_beam the moment at the first sample (x = 0) equals the *)
(* returned reaction moment Ma = Reactions[2] (0-based) and the moment at  *)
(* the last sample (the free end) is zero.                                 *)
(***************************************************************************)
C9_CantileverBoundaryMoments ==
    (Solved /\ entry = "solve_cantilever_beam")
        => /\ Total_BendingMoment[1] = Reactions[3]
           /\ Last(Total_BendingMoment) = Zero

(***************************************************************************)
(* C10.  Cantilever deflection is not end-corrected: for a cantilever the  *)
(* deflection the program produces is the plain double cumulative          *)
(* trapezoidal integral of M / (E * I) from zero slope and zero deflection *)
(* at x = 0, with no linear correction.                                    *)
(***************************************************************************)
PlainDoubleIntegral ==
    cumulative_trapezoid(
        cumulative_trapezoid(Curvature(Total_BendingMoment, elastic_modulus, Ix), X_Field),
        X_Field)

C10_CantileverDeflectionUncorrected ==
    (pc = "deflected" /\ beam_type = "Cantilever")
        => Deflection = PlainDoubleIntegral

(***************************************************************************)
(* C11.  Deflection at the actual supports: for a simply-supported beam    *)
(* with pin at A and roller at B, wherever they are on the beam, the       *)
(* deflection returned for the solved moment field is zero at every sample *)
(* with x = A or x = B.                                                    *)
(***************************************************************************)
C11_DeflectionZeroAtSupports ==
    (pc = "deflected" /\ beam_type = "Simple")
        => \A i \in 1..Len(X_Field) :
               (X_Field[i] = A \/ X_Field[i] = B) => Deflection[i] = Zero

(***************************************************************************)
(* C12.  Deflection end anchoring: calculate_beam_deflection returns       *)
(* deflection[0] = 0, deflection[last] = 0 and slope[0] = 0, the returned  *)
(* deflection being the double cumulative trapezoidal integral minus       *)
(* deflection_uncorrected[last] * (x[i] / x[last]).                        *)
(***************************************************************************)
C12_DeflectionEndAnchoring ==
    pc = "deflected" =>
        /\ Deflection[1] = Zero
        /\ Last(Deflection) = Zero
        /\ Slope[1] = Zero
        /\ \E uncorrected \in {PlainDoubleIntegral} :
               \A i \in 1..Len(X_Field) :
                   Deflection[i] =
                       RSub(uncorrected[i],
                            RMul(Last(uncorrected), RDiv(X_Field[i], Last(X_Field))))

C12_Witness ==
    /\ pc = "deflected"
    /\ Last(PlainDoubleIntegral) # Zero
    /\ \E i \in 1..Len(Deflection) : Deflection[i] # Zero

(***************************************************************************)
(* C16.  Order of the returned reactions: the fourth value returned by     *)
(* solve_simple_beam lists the reactions as [Va, Ha, Vb] for a Simple beam *)
(* and as [Va, Ha, Ma] for a Cantilever beam, and solve_cantilever_beam    *)
(* returns [Va, Ha, Ma].                                                   *)
(***************************************************************************)
\* the reactions of the current loads under the names the reaction solvers
\* return them: "return Va, Vb, Ha" and "return Va, Ha, Ma"
NamedReactions ==
    IF beam_type = "Simple"
    THEN LET r == calculate_all_reactions(A, B, pointloads, momentloads,
                                          distributedloads, triangleloads)
         IN  [Va |-> r[1], Vb |-> r[2], Ha |-> r[3]]
    ELSE LET r == Calculate_Cantilever_Reactions(pointloads, momentloads,
                                                 distributedloads, triangleloads)
         IN  [Va |-> r[1], Ha |-> r[2], Ma |-> r[3]]

C16_ReactionOrder ==
    Solved =>
        \E r \in {NamedReactions} :
            Reactions = IF beam_type = "Simple"
                        THEN <<r.Va, r.Ha, r.Vb>>
                        ELSE <<r.Va, r.Ha, r.Ma>>

(***************************************************************************)
(* C20.  Horizontal reaction is decoupled: for a simply-supported beam Ha  *)
(* equals the sum of the horizontal components Fx of all point loads, for  *)
(* a cantilever Ha equals minus that sum, and changing any Fx changes no   *)
(* other output: the other two reactions, the shear array and the moment   *)
(* array stay the same.                                                    *)
(***************************************************************************)
HorizontalLoad == RSum([n \in 1..Len(pointloads) |-> pointloads[n][2]])

\* where the entry points put Ha in the reactions they return (1-based)
HaIndex == IF beam_type = "Simple" THEN 3 ELSE 2

\* the horizontal components a point load is changed to
OtherFx == {R(0), R(2), R(-3)}

WithFx(pl, n, fx) == [pl EXCEPT ![n][2] = fx]

C20_HorizontalDecoupled ==
    pc = "solved" =>
        /\ Reactions[HaIndex] = IF beam_type = "Simple"
                                THEN HorizontalLoad
                                ELSE RNeg(HorizontalLoad)
        /\ \A n \in 1..Len(pointloads), fx \in OtherFx :
               \E r \in {SolveWith(WithFx(pointloads, n, fx), distributedloads,
                                   momentloads, triangleloads)} :
                   /\ r[2] = Total_ShearForce
                   /\ r[3] = Total_BendingMoment
                   /\ \A k \in (1..3) \ {HaIndex} : r[4][k] = Reactions[k]

C20_Witness ==
    /\ pc = "solved"
    /\ Len(pointloads) = 2
    /\ Reactions[HaIndex] # Zero
    /\ \E i \in 1..Len(Total_ShearForce) : Total_ShearForce[i] # Zero
    /\ \E r \in {SolveWith(WithFx(pointloads, 1, R(-3)), distributedloads,
                            momentloads, triangleloads)} :
           r[4][HaIndex] # Reactions[HaIndex]

(***************************************************************************)
(* C17.  Factor-of-safety monotonicity: for a fixed non-zero moment array  *)
(* and fixed positive c, Factor_of_Safety does not decrease when Ix        *)
(* increases (yield_strength fixed) and does not increase when             *)
(* yield_strength decreases (Ix fixed).                                    *)
(***************************************************************************)
\* the factor of safety of the stored moment field for another section or
\* material
FOSWith(ys, I) == Factor_of_Safety(Total_BendingMoment, c, ys, I)[2]

C17_FOSMonotonic ==
    (pc = "stressed" /\ ~ AllZero(Total_BendingMoment)) =>
        /\ \A I \in Inertias :
               RLe(Ix, I) => RLe(FOS, FOSWith(yield_strength, I))
        /\ \A ys \in YieldStrengths :
               RLe(ys, yield_strength) => RLe(FOSWith(ys, Ix), FOS)

C17_Witness ==
    /\ pc = "stressed"
    /\ ~ AllZero(Total_BendingMoment)
    /\ \E I \in Inertias : RLt(Ix, I) /\ RLt(FOS, FOSWith(yield_strength, I))
    /\ \E ys \in YieldStrengths :
           RLt(ys, yield_strength) /\ RLt(FOSWith(ys, Ix), FOS)

(***************************************************************************)
(* C18.  Factor of safety with no bending: when the bending moment is zero *)
(* at every sample the stress analysis does not end in the handler of a    *)
(* division error; Factor_of_Safety yields an infinite or undefined value  *)
(* that is stored as the FOS to report.                                    *)
(***************************************************************************)
C18_FOSWithoutBending ==
    (pc \in {"stressed", "stress_error"} /\ AllZero(Total_BendingMoment)) =>
        /\ pc = "stressed"
        /\ FOS \in {Inf, NaN}

C18_Witness ==
    /\ pc = "stressed"
    /\ AllZero(Total_BendingMoment)
    /\ Len(Total_BendingMoment) = Divisions + 1
    /\ Max_bending_stress = Zero
    /\ FOS = Inf

(***************************************************************************)
(* C19.  Maximum shear stress uses Q at the neutral axis: for the y        *)
(* samples of a profile, symmetric about 0 and spanning [-c, c], the Q     *)
(* array of first_moment_of_area_rect is zero at both extreme fibres       *)
(* y = -c and y = +c and largest at y = 0, so that the maximum shear       *)
(* stress the program reports equals max|V| * Q(0) / (Ix * b).             *)
(***************************************************************************)
\* the index of the sample y = 0
NeutralAxis == YHalf + 1

C19_MaxShearStressAtNeutralAxis ==
    (/\ pc = "stressed"
     /\ y_array[1] = RNeg(c) /\ Last(y_array) = c /\ y_array[NeutralAxis] = Zero)
        => /\ Q_array[1] = Zero
           /\ Last(Q_array) = Zero
           /\ \A j \in 1..Len(Q_array) : RLe(Q_array[j], Q_array[NeutralAxis])
           /\ Max_Shear_stress =
                  RDiv(RMul(MaxAbs(Total_ShearForce), Q_array[NeutralAxis]),
                       RMul(Ix, b))

(***************************************************************************)
(* C13.  Invalid support order is an error: a direct call of               *)
(* solve_simple_beam for a Simple beam with B <= A ends in an error        *)
(* instead of returning reactions and fields, for every load list          *)
(* including the empty one.                                                *)
(***************************************************************************)
C13_InvalidSupportOrderIsError ==
    \A n \in 1..Len(calls) :
        (/\ calls[n].name = "solve_simple_beam"
         /\ calls[n].beam_type = "Simple"
         /\ calls[n].A # None /\ calls[n].B # None
         /\ RLe(calls[n].B, calls[n].A))
            => calls[n].outcome # "returned"

(***************************************************************************)
(* C14.  Zero-length distributed loads are rejected: a direct call of      *)
(* solve_simple_beam or solve_cantilever_beam whose load lists hold a UDL  *)
(* or a triangular load with start = end ends in an error rather than      *)
(* returning a result.                                                     *)
(***************************************************************************)
\* a UDL or triangular load of the list has start = end
HasZeroLength(list) == \E n \in 1..Len(list) : list[n][1] = list[n][2]

C14_ZeroLengthLoadIsError ==
    \A n \in 1..Len(calls) :
        (HasZeroLength(calls[n].loads[2]) \/ HasZeroLength(calls[n].loads[4]))
            => calls[n].outcome # "returned"

(***************************************************************************)
(* C15.  Solver determinism and purity: two calls of solve_simple_beam (or *)
(* solve_cantilever_beam) with identical arguments end the same way and    *)
(* return identical X_Field, shear, moment and reactions, whatever other   *)
(* calls happened in between, and no call modifies the load lists it was   *)
(* given.                                                                  *)
(***************************************************************************)
SameCall(c1, c2) ==
    /\ c1.name = c2.name
    /\ c1.beam_length = c2.beam_length
    /\ c1.A = c2.A /\ c1.B = c2.B
    /\ c1.beam_type = c2.beam_type
    /\ c1.loads = c2.loads

IntensityAt(tr, x) ==
    RAdd(tr[3], RMul(RDiv(RSub(x, tr[1]), RSub(tr[2], tr[1])), RSub(tr[4], tr[3])))

\* force of a linearly varying load between x1 and x2, start <= x1 <= x2 <= end
TRLForceBetween(tr, x1, x2) ==
    RMul(RDiv(RAdd(IntensityAt(tr, x1), IntensityAt(tr, x2)), R(2)), RSub(x2, x1))

\* first moment about x2 of that force: (x2 - x1)^2 * (2 * w(x1) + w(x2)) / 6
TRLMomentAboutRight(tr, x1, x2) ==
    RDiv(RMul(RMul(RSub(x2, x1), RSub(x2, x1)),
              RAdd(RMul(R(2), IntensityAt(tr, x1)), IntensityAt(tr, x2))),
         R(6))

\* first moment about x1 of that force: (x2 - x1)^2 * (w(x1) + 2 * w(x2)) / 6
TRLMomentAboutLeft(tr, x1, x2) ==
    RDiv(RMul(RMul(RSub(x2, x1), RSub(x2, x1)),
              RAdd(IntensityAt(tr, x1), RMul(R(2), IntensityAt(tr, x2)))),
         R(6))

\* total applied vertical force strictly to the right of x
ForceRightOf(x) ==
    RSum([n \in 1..Len(pointloads) |->
              IF RLt(x, pointloads[n][1]) THEN pointloads[n][3] ELSE Zero]
         \o [n \in 1..Len(distributedloads) |->
              LET d == distributedloads[n]
              IN  IF RLt(x, d[2]) THEN RMul(d[3], RSub(d[2], RMax(x, d[1]))) ELSE Zero]
         \o [n \in 1..Len(triangleloads) |->
              LET tr == triangleloads[n]
              IN  IF RLt(x, tr[2])
                  THEN TRLForceBetween(tr, RMax(x, tr[1]), tr[2])
                  ELSE Zero])

(***************************************************************************)
(* C21.  Cantilever shear counts every load to the right: at every sample  *)
(* x the shear of Calculate_SF_BM_Cantilever equals minus the total        *)
(* applied vertical force strictly to the right of x, over all load types; *)
(* a triangular load entirely to the right of x contributes its full       *)
(* resultant, a distributed load straddling x the part between x and its   *)
(* end.                                                                    *)
(***************************************************************************)
C21_CantileverShearRightOf ==
    (Solved /\ beam_type = "Cantilever") =>
        \A i \in 1..Len(X_Field) :
            Total_ShearForce[i] = RNeg(ForceRightOf(X_Field[i]))

(***************************************************************************)
(* C22.  Cantilever moment of a linearly varying load cut by x: for a TRL  *)
(* and a sample x with start <= x < end, the moment contribution of        *)
(* Calculate_SF_BM_Cantilever equals minus the first moment about x of the *)
(* load between x and end, -(end - x)^2 * (w(x) + 2 * w_end) / 6, for      *)
(* rising, falling and trapezoidal loads alike.                            *)
(***************************************************************************)
C22_CantileverCutMoment ==
    (Solved /\ beam_type = "Cantilever") =>
        \A n \in 1..Len(triangleloads), i \in 1..Len(X_Field) :
            LET tr == triangleloads[n]
                x  == X_Field[i]
            IN  (RLe(tr[1], x) /\ RLt(x, tr[2]))
                    => CantileverTRLAt(x, tr)[2] = RNeg(TRLMomentAboutLeft(tr, x, tr[2]))

(***************************************************************************)
(* C23.  Simple-beam partial triangular load: for a pure triangular load   *)
(* and a sample x with start < x <= end, calculate_sf_bm adds to the shear *)
(* the area of the load between start and x and to the moment (before the  *)
(* negation) minus that area's first moment about x; at x = end these      *)
(* in-span values equal the beyond-span values, the full resultant at its  *)
(* centroid, so the contribution is continuous at the end of the load.     *)
(***************************************************************************)
\* the beyond-span contribution evaluated at x: the resultant at its centroid
BeyondSpanAt(x, tr) ==
    LET Fy_res == SimpleTRLResultant(tr)[1]
        X_res  == SimpleTRLResultant(tr)[2]
    IN  <<Fy_res, RNeg(RMul(Fy_res, RSub(x, X_res)))>>

C23_SimplePartialTriangle ==
    (Solved /\ beam_type = "Simple") =>
        \A n \in 1..Len(triangleloads), i \in 1..Len(X_Field) :
            LET tr == triangleloads[n]
                x  == X_Field[i]
            IN  (PureTriangle(tr) /\ RLt(tr[1], x) /\ RLe(x, tr[2]))
                    => /\ SimpleTRLAt(x, tr) =
                              <<TRLForceBetween(tr, tr[1], x),
                                RNeg(TRLMomentAboutRight(tr, tr[1], x))>>
                       /\ x = tr[2] => SimpleTRLAt(x, tr) = BeyondSpanAt(x, tr)

\* a falling and a rising triangle, each cut by a sample inside its span and
\* ending at a sample
C23_Witness ==
    /\ Solved /\ beam_type = "Simple"
    /\ Len(triangleloads) = 2
    /\ FallingTriangle(triangleloads[1])
    /\ PureTriangle(triangleloads[2]) /\ ~ FallingTriangle(triangleloads[2])
    /\ \A n \in 1..2 :
           /\ \E i \in 1..Len(X_Field) :
                  /\ RLt(triangleloads[n][1], X_Field[i])
                  /\ RLt(X_Field[i], triangleloads[n][2])
                  /\ SimpleTRLAt(X_Field[i], triangleloads[n])[2] # Zero
           /\ \E i \in 1..Len(X_Field) : X_Field[i] = triangleloads[n][2]

(***************************************************************************)
(* C26.  Simple-beam moment vanishes at both beam ends: for every A < B    *)
(* and every load list with all positions inside [0, L] and no point       *)
(* moment exactly at x = L, the moment array of calculate_sf_bm with the   *)
(* reactions of calculate_all_reactions is zero at the first sample x = 0  *)
(* and at the last sample x = L.                                           *)
(***************************************************************************)
C26_SimpleMomentZeroAtEnds ==
    (/\ Solved /\ beam_type = "Simple"
     /\ \A n \in 1..Len(momentloads) : momentloads[n][1] # beam_length)
        => /\ X_Field[1] = Zero /\ Last(X_Field) = beam_length
           /\ Total_BendingMoment[1] = Zero
           /\ Last(Total_BendingMoment) = Zero

\* an overhanging beam with a point moment and a load on the overhang
C26_Witness ==
    /\ Solved /\ beam_type = "Simple"
    /\ RLt(Zero, A) /\ RLt(B, beam_length)
    /\ Len(momentloads) = 1
    /\ \E n \in 1..Len(triangleloads) : triangleloads[n][2] = beam_length
    /\ \E i \in 1..Len(Total_BendingMoment) : Total_BendingMoment[i] # Zero

(***************************************************************************)
(* C29.  The two cantilever entry points agree: for every beam length and  *)
(* load list, solve_simple_beam(..., beam_type = "Cantilever") and         *)
(* solve_cantilever_beam(...) return the same X_Field, the same shear      *)
(* array, the same moment array (same sign) and the same reactions.        *)
(***************************************************************************)
C29_CantileverEntryPointsAgree ==
    (Solved /\ beam_type = "Cantilever") =>
        solve_simple_beam(beam_length, A, B, pointloads, distributedloads,
                          momentloads, triangleloads, "Cantilever")
            = solve_cantilever_beam(beam_length, pointloads, distributedloads,
                                    momentloads, triangleloads)

(***************************************************************************)
(* C24.  Left-to-right cantilever formulation closes at the free end: in   *)
(* SuperSolver.solve_cantilever with the fixed end at A = 0, for every     *)
(* list of point loads, UDLs and point moments placed inside the beam,     *)
(* both the shear and the bending moment at the last sample, the free end, *)
(* are zero.                                                               *)
(***************************************************************************)
C24_SuperCantileverClosesAtFreeEnd ==
    pc = "super_returned" =>
        /\ Last(X_Field) = beam_length
        /\ Last(Total_ShearForce) = Zero
        /\ Last(Total_BendingMoment) = Zero

\* the shear alone closes at the free end
C24_ShearClosesAtFreeEnd ==
    pc = "super_returned" => Last(Total_ShearForce) = Zero

(***************************************************************************)
(* The menu session: what the claims about it speak of.                    *)
(***************************************************************************)
\* the four flags the analysis needs, read from project_state
AllFourSaved ==
    /\ project_state["profile_saved"]
    /\ project_state["material_saved"]
    /\ project_state["loads_saved"]
    /\ project_state["supports_saved"]

\* the results the menu holds
StoredResults == <<X_Field, Total_ShearForce, Total_BendingMoment, Reactions>>

(***************************************************************************)
(* C25.  Analysis gating in the CLI: in every sequence of menu actions the *)
(* run-analysis action reaches the solver only in a state where            *)
(* profile_saved, material_saved, loads_saved and supports_saved are all   *)
(* true; otherwise it reports the error and leaves the stored results and  *)
(* analysis_complete unchanged.                                            *)
(***************************************************************************)
C25_AnalysisGating ==
    [][/\ outcome' \in {AnalysisCompleted, ErrorSolvingBeam} => AllFourSaved
       /\ outcome' = AnalysisRequires =>
              /\ ~ AllFourSaved
              /\ StoredResults' = StoredResults
              /\ project_state'.analysis_complete = project_state.analysis_complete
       /\ (StoredResults' # StoredResults
           \/ (project_state'.analysis_complete /\ ~ project_state.analysis_complete))
              => AllFourSaved /\ outcome' = AnalysisCompleted]_vars

\* an analysis was completed, a flag was taken back, and the next run was
\* turned away with the results still in place
C25_Witness ==
    /\ pc = "menu"
    /\ outcome = AnalysisRequires
    /\ project_state.analysis_complete
    /\ ~ project_state.supports_saved
    /\ project_state.profile_saved /\ project_state.material_saved
    /\ project_state.loads_saved
    /\ X_Field # <<>>

(***************************************************************************)
(* C27.  The CLI never solves a Simple beam without valid supports: in     *)
(* every sequence of menu actions, whenever run-analysis calls             *)
(* solve_simple_beam the stored support positions are numbers with         *)
(* 0 <= A < B that came from a successful Beam_Supports call or a loaded   *)
(* project.                                                                *)
(***************************************************************************)
C27_SimpleSolvedWithValidSupports ==
    (/\ pc = "menu"
     /\ outcome \in {AnalysisCompleted, ErrorSolvingBeam}
     /\ beam_type = "Simple")
        => /\ A # None /\ B # None
           /\ RLe(Zero, A) /\ RLt(A, B)
           /\ A_type = "Pin Support" /\ B_type = "Roller Support"

(***************************************************************************)
(* C28.  Stored results are never stale: in every sequence of menu         *)
(* actions, whenever analysis_complete is true the stored X_Field, shear,  *)
(* moment and reactions were computed from the currently stored beam type, *)
(* beam length, supports and loads.                                        *)
(***************************************************************************)
C28_ResultsNeverStale ==
    (pc = "menu" /\ project_state.analysis_complete) =>
        /\ beam_type # NoBeamType
        /\ ~ MenuSolverRaises
        /\ StoredResults = MenuSolverResult

(***************************************************************************)
(* C30: project names stay unique.  Starting from a beam_storage without   *)
(* two names that are equal ignoring case, every sequence of save_project  *)
(* calls keeps it so.  A call with a name that is empty after stripping    *)
(* changes nothing and returns False; a call under a name that exists      *)
(* overwrites that one entry, at its place, when the answer is y or Y, and *)
(* otherwise leaves beam_storage, current_project and project_state as     *)
(* they were and returns False; a call that returns True leaves            *)
(* has_unsaved_changes false.                                              *)
(***************************************************************************)
C30_ProjectNamesStayUnique ==
    /\ [](pc = "save" => UniqueIgnoringCase(beam_storage))
    /\ [][pc = "save" =>
            LET call == calls'[1]
                typed == strip(call.project_name)
                existing == {n \in 1..Len(beam_storage) :
                                 lower(beam_storage[n].name) = lower(typed)}
            IN  /\ typed = <<>> =>
                       /\ ~ call.returned
                       /\ UNCHANGED <<beam_storage, current_project, project_state>>
                /\ (typed # <<>> /\ existing # {}) =>
                       IF lower(call.confirmation) = <<"y">>
                       THEN /\ call.returned
                            /\ Len(beam_storage') = Len(beam_storage)
                            /\ \E idx \in existing :
                                 /\ beam_storage'[idx].name = typed
                                 /\ current_project' = <<beam_storage'[idx]>>
                                 /\ \A n \in 1..Len(beam_storage) :
                                        n # idx => beam_storage'[n] = beam_storage[n]
                       ELSE /\ ~ call.returned
                            /\ UNCHANGED <<beam_storage, current_project, project_state>>
                /\ (typed # <<>> /\ existing = {}) =>
                       /\ call.returned
                       /\ Len(beam_storage') = Len(beam_storage) + 1
                       /\ SubSeq(beam_storage', 1, Len(beam_storage)) = beam_storage
                       /\ beam_storage'[Len(beam_storage')].name = typed
                /\ call.returned => ~ project_state'.has_unsaved_changes]_vars

\* " A" was typed and confirmed with Y where a project of that name, in
\* either case, stood first of at least two: it is now "A", still first, the
\* project in hand, and nothing is unsaved
C30_Witness ==
    /\ pc = "save"
    /\ calls = <<SaveCall(<<" ", "A">>, <<"Y">>, TRUE)>>
    /\ Len(beam_storage) >= 2
    /\ beam_storage[1].name = <<"A">>
    /\ beam_storage[1].beam_type = "Cantilever"
    /\ beam_storage[2].name = <<"b">>
    /\ current_project = <<beam_storage[1]>>
    /\ ~ project_state.has_unsaved_changes

====
